---- MODULE Spec2Model ----
(***************************************************************************)
(* UnifiedBattleLogSystem (src/unnamed/part_012, lines 975-2121): the      *)
(* chunked battle-log store over AsyncStorage, its LRU cache, per-battle   *)
(* Mutex, write queues, flush timers and sync queue.                       *)
(*                                                                         *)
(* Execution model.  JavaScript runs one task at a time; a task gives up   *)
(* control only at an `await`.  Every asynchronous call of the class is a  *)
(* task (a slot of `tasks`); one step of a task is: the effect of the      *)
(* AsyncStorage operation (or the mutex grant) it was awaiting, followed   *)
(* by the synchronous code up to its next await.  An AsyncStorage          *)
(* operation may fail (reject); a rejected operation changes nothing.      *)
(*                                                                         *)
(* Objects.  The {meta, chunks} records held by the cache are JavaScript   *)
(* objects that tasks keep references to across awaits, so they live in    *)
(* `heap` and are named by reference.  Message objects created by          *)
(* enqueueMessage are shared by the write queue and by the chunks built    *)
(* from it (field orig = TRUE, isRead read from memRead); messages parsed  *)
(* from storage are fresh objects owned by one chunk (orig = FALSE).       *)
(*                                                                         *)
(* Search.  searchIndex holds, per battle and token, the positions        *)
(* (chunkIndex, messageIndex) indexMessage pushed.  The text of a message  *)
(* is a fixed function of its id (Text), its timestamp is its id: ids are  *)
(* given in the order of creation.  searchMessages writes nothing but the  *)
(* recency of the cache entry it reads and is an operator on the state.    *)
(*                                                                         *)
(* Events.  emitted holds, per battle, the messages emitted as            *)
(* battle_<id>, that is, what a callback given to subscribe is called      *)
(* with.                                                                   *)
(*                                                                         *)
(* Chunk texts.  The texts saveBattleChunks writes and                     *)
(* loadBattleFromStorage decodes are the record codec, with actions of     *)
(* their own (TextCalls).                                                  *)
(* lz-string is not part of the repository: whether it is installed, and   *)
(* what decompressFromUTF16 does with a text it did not compress (throw,   *)
(* or return a string that is not JSON), are parameters fixed by Init.     *)
(* In the battle-log part every chunk is below compressThreshold and is    *)
(* read back as it was written.                                            *)
(*                                                                         *)
(* Not modelled: time stamps (startTime, lastUpdated, createdAt), which    *)
(* no modelled operation reads.                                            *)
(*                                                                         *)
(* SkillWebSocketManager (src/unnamed/part_011, lines 93-618) is the       *)
(* second object of the model, the record wsm.  Its methods are            *)
(* synchronous, so each is an operator from manager state to manager       *)
(* state and each action is one whole handler.  The WebSocket is its       *)
(* readyState (socket) and the sequence of messageIds given to ws.send     *)
(* (wire); setTimeout is a set of pending timeouts with due times on the   *)
(* integer clock now, and a timeout fires as soon as it is due.  History   *)
(* fields of wsm: sockets, wire, events, batched, submitted, last.         *)
(* Not modelled there: disconnect, cleanup, updateConfig,                  *)
(* clearMessageQueue, sendDiffSync, incoming messages other than ack, the  *)
(* statistics other than messagesFailed, and ws.send throwing (it throws   *)
(* in readyState CONNECTING only, where isConnected is false).             *)
(***************************************************************************)
EXTENDS Integers, Sequences, FiniteSets, TLC

\* ---- bounds of the model ------------------------------------------------
\* Battles (log identifiers) 1..NumLogs.
NumLogs == 2
\* Messages that enqueueMessage may create: message ids 1..MaxMsgs.  The runs
\* with AsyncStorage rejections stop at MidMsgs messages, the runs on several
\* battles and the runs with three calls in flight at FewMsgs.
MaxMsgs == 4
MidMsgs == 3
FewMsgs == 2
\* Asynchronous calls in flight at the same time; MaxTasks - 1 in the runs with
\* more messages.
MaxTasks == 3
\* AsyncStorage operations that may be rejected in one run.
MaxFails == 1
\* getRecentMessages calls that miss the cache, and markMessagesAsRead calls
\* that change something, in one run.
MaxGets == 1
MaxMarks == 1
\* markMessagesAsRead calls in the runs on one battle with marking.
MaxMarksSeq == 2
\* clearBattleLog and clearAllLogs calls a client makes in one run.
MaxClears == 1
\* SkillWebSocketManager: debounce keys 1..NumKeys, sendSkillUpdate and
\* sendFullSync calls of a run, and the time a run lasts.
NumKeys == 2
MaxUpdates == 3
MaxSyncs == 2
MaxTime == 6
\* Its configuration (DEFAULT_CONFIG, lines 81-92) in time units that keep the
\* order debounceDelay < batchInterval < retryDelay < reconnectInterval < 5000,
\* the acknowledgment timeout of line 399.
debounceDelay == 1
batchInterval == 2
retryDelay == 3
reconnectInterval == 4
ackTimeout == 5
maxReconnectAttempts == 2
maxRetryAttempts == 3

\* Chunk texts: the chunks a run stores, the texts damaged outside the program,
\* and the message ids of the chunks.
MaxStored == 2
MaxDamaged == 1
TextMsgs == 1..2
\* compressThreshold (8192 characters in the source) in messages: the serialized
\* size of a chunk is counted as the number of its messages.
compressThreshold == 1

\* The configuration (DEFAULT_CONFIG, overridable through the constructor),
\* scaled down: flushThreshold 10, maxChunksPerBattle 10, maxBattlesStored 20,
\* cacheSize 5 in the source.
flushThreshold == 2
maxChunksPerBattle == 2
maxBattlesStored == 1
cacheSize == 1
\* The cacheSize of the runs in which the cache holds every battle.
wideCache == 2
\* chunkSize 50, maxIndexTokens 20, maxIndexPositions 200 in the source.
chunkSize == 3
maxIndexTokens == 2
maxIndexPositions == 4

Logs == 1..NumLogs
MsgIds == 1..MaxMsgs
TaskIds == 1..MaxTasks
ObjIds == 1..(NumLogs + MaxTasks)

VARIABLES
  metaStore,      \* AsyncStorage battle_log_meta_<b>: <<>> (absent) or <<meta>>
  chunkStore,     \* AsyncStorage battle_log_chunk_<b>_<i>: per battle, index -> messages
  indexStore,     \* AsyncStorage battle_logs_index
  cache,          \* LRUCache.cache: keys in Map insertion order, each with an object reference
  heap,           \* the {meta, chunks} objects: <<>> (free) or <<object>>
  writeQueues,    \* writeQueues: per battle, whether present and the buffered message ids
  flushTimers,    \* flushTimers: "none", "armed" (timeout pending) or "stale" (fired, handle still stored)
  messageQueue,   \* messageQueue: ids of the QueuedMessage entries, all pending
  emitted,        \* per battle, the messages emitted as battle_<b>: what a callback given to
                  \* subscribe(b) before the first call has been called with, in that order
  locked,         \* Mutex.locked per battle
  waiters,        \* Mutex.queue per battle: tasks waiting for the lock
  globalMetaIndex,\* globalMetaIndex
  memRead,        \* isRead of the message objects created by enqueueMessage
  nextId,         \* next message id generateMessageId returns
  errors,         \* stats.errors
  flushes,        \* stats.flushes
  flushErrors,    \* number of flushError events emitted per battle
  fails,          \* AsyncStorage rejections so far
  tasks,          \* the asynchronous calls in flight
  enqueued,       \* history: per battle, the message ids in the order they were buffered
  calls,          \* history: getRecentMessages, markMessagesAsRead and clear calls that started a task;
                  \* zeroed: the battles on which a markMessagesAsRead without ids has returned
                  \* and no enqueueMessage was called since
  searchIndex,    \* searchIndex: per battle, token -> positions <<chunkIndex, messageIndex>>
  cap,            \* limits of the run, fixed by Init: messages, tasks in flight, rejections,
                  \* battles, and calls of getRecentMessages / markMessagesAsRead / clear;
                  \* cacheSize is config.cacheSize, given to the constructor
  wsm,            \* the SkillWebSocketManager object, its socket, the timeouts it has set
                  \* and the clock (see NewManager)
  codec           \* the texts of a battle's chunk records as saveBattleChunks writes them and
                  \* loadBattleFromStorage decodes them, with the lz-string library (see NewCodec)

vars == <<metaStore, chunkStore, indexStore, cache, heap, writeQueues, flushTimers,
          messageQueue, emitted, locked, waiters, globalMetaIndex, memRead, nextId, errors,
          flushes, flushErrors, fails, tasks, enqueued, calls, searchIndex, cap, wsm, codec>>

\* The variables of UnifiedBattleLogSystem.
logVars == <<metaStore, chunkStore, indexStore, cache, heap, writeQueues, flushTimers,
             messageQueue, emitted, locked, waiters, globalMetaIndex, memRead, nextId, errors,
             flushes, flushErrors, fails, tasks, enqueued, calls, searchIndex, cap>>

\* ---- values --------------------------------------------------------------
EmptyChunks == [i \in {} |-> <<>>]

\* BattleMeta as created by ensureBattleMetaExists and by flushBattle.
NewMeta == [lastChunkIndex |-> -1, totalMessages |-> 0, unreadCount |-> 0]

\* A call in flight: the operation and the await it is suspended at, its battle
\* and message, the caller flushBattle returns to, the queue array it captured
\* (still the battle's array, or its content when it was replaced), the object
\* it works on, and the payload of the AsyncStorage operation it awaits.
\* iter is the position of clearAllLogs in its loop over globalMetaIndex.
\* History: waited and qstart (see FlushCall and QStart), reached (see EnqPush),
\* atStart (see ClearAllLogs).
IdleTask ==
  [op |-> "idle", pc |-> "idle", log |-> 0, msg |-> 0, ret |-> "none",
   qlive |-> FALSE, qsnap |-> <<>>, bd |-> 0, meta |-> <<>>,
   chunks |-> EmptyChunks, widx |-> <<>>, ids |-> {}, hasIds |-> FALSE, delta |-> 0,
   iter |-> 0, waited |-> FALSE, qstart |-> <<>>, reached |-> FALSE, atStart |-> {}]

Max(S) == CHOOSE x \in S : \A y \in S : y <= x

\* Array.from(keys).sort((a, b) => a - b)
RECURSIVE SortedSeq(_)
SortedSeq(S) ==
  IF S = {} THEN <<>>
  ELSE LET m == CHOOSE x \in S : \A y \in S : x <= y
       IN <<m>> \o SortedSeq(S \ {m})

\* ---- LRUCache ------------------------------------------------------------
CacheHas(c, k) == \E i \in 1..Len(c) : c[i].key = k

CacheRef(c, k) == IF CacheHas(c, k) THEN (c[CHOOSE i \in 1..Len(c) : c[i].key = k]).ref ELSE 0

CacheWithout(c, k) == SelectSeq(c, LAMBDA e : e.key # k)

\* LRUCache.get: a hit moves the key to the end of the Map.
LRUGet(c, k) ==
  IF CacheHas(c, k) THEN Append(CacheWithout(c, k), [key |-> k, ref |-> CacheRef(c, k)]) ELSE c

\* LRUCache.set: when the Map is full its first key is deleted, whatever the
\* key being set; Map.set then keeps the place of a key that is present.
LRUSet(c, k, r) ==
  LET c1 == IF Len(c) >= cap.cacheSize THEN Tail(c) ELSE c
  IN IF CacheHas(c1, k)
     THEN [i \in 1..Len(c1) |-> IF c1[i].key = k THEN [key |-> k, ref |-> r] ELSE c1[i]]
     ELSE Append(c1, [key |-> k, ref |-> r])

\* ---- heap ----------------------------------------------------------------
FreeRef(h) == CHOOSE i \in ObjIds : h[i] = <<>> /\ \A j \in ObjIds : h[j] = <<>> => i <= j

LiveRefs(c, ts) == {c[i].ref : i \in 1..Len(c)} \cup {ts[p].bd : p \in TaskIds}

\* Objects no reference reaches are dropped.
Collect(h, c, ts) == [i \in ObjIds |-> IF i \in LiveRefs(c, ts) THEN h[i] ELSE <<>>]

\* ---- messages ------------------------------------------------------------
\* A message object of the write queue, as it stands in a chunk built from it.
OrigEntry(m) == [id |-> m, orig |-> TRUE, isRead |-> FALSE]

EntryRead(e, mr) == IF e.orig THEN mr[e.id] ELSE e.isRead

\* JSON.stringify of a chunk's messages / JSON.parse of the stored text.
Serialize(msgs, mr) == [i \in 1..Len(msgs) |-> [id |-> msgs[i].id, isRead |-> EntryRead(msgs[i], mr)]]

Parse(stored) == [i \in 1..Len(stored) |-> [id |-> stored[i].id, orig |-> FALSE, isRead |-> stored[i].isRead]]

SerializeChunks(chs, mr) == [i \in DOMAIN chs |-> Serialize(chs[i], mr)]

Ids(msgs) == [i \in 1..Len(msgs) |-> msgs[i].id]

\* ---- reading a battle ---------------------------------------------------
\* loadBattleFromStorage, the multiGet of keys 0..lastChunkIndex: the chunks
\* found, parsed.
LoadChunks(stored, last) == [i \in (DOMAIN stored) \cap (0..last) |-> Parse(stored[i])]

\* The inner loop of getMessagesFromBattleData: a chunk's messages, newest
\* first, while fewer than limit are collected.
RECURSIVE TakeFromChunk(_, _, _, _)
TakeFromChunk(msgs, i, acc, limit) ==
  IF i < 1 \/ Len(acc) >= limit THEN acc
  ELSE TakeFromChunk(msgs, i - 1, Append(acc, msgs[i]), limit)

\* The outer loop: from meta.lastChunkIndex downward, skipping missing chunks.
RECURSIVE TakeNewest(_, _, _, _)
TakeNewest(chs, chunkIndex, acc, limit) ==
  IF chunkIndex < 0 \/ Len(acc) >= limit THEN acc
  ELSE TakeNewest(chs, chunkIndex - 1,
                  IF chunkIndex \in DOMAIN chs
                  THEN TakeFromChunk(chs[chunkIndex], Len(chs[chunkIndex]), acc, limit)
                  ELSE acc,
                  limit)

Reverse(s) == [i \in 1..Len(s) |-> s[Len(s) + 1 - i]]

\* A getMessagesFromBattleData that returns the messages as collected, newest
\* first; C33 must tell it from the source's.
getMessagesNewestFirst(bd, limit) ==
  TakeNewest(bd.chunks, bd.meta.lastChunkIndex, <<>>, limit)

getMessagesFromBattleData(bd, limit) ==
  Reverse(TakeNewest(bd.chunks, bd.meta.lastChunkIndex, <<>>, limit))

\* ---- search index ------------------------------------------------------
\* The words messages and queries are made of, and their lengths.
Words == {"fireball", "wind", "rimuru", "hp"}

WordLength(w) ==
  CASE w = "fireball" -> 8
    [] w = "wind" -> 4
    [] w = "rimuru" -> 6
    [] OTHER -> 2

\* The text `${senderName} ${content}` of the message with id m, lower-cased
\* and split at white space: the messages a client enqueues, in the order it
\* enqueues them.  Message 2 repeats a word, message 3 has a word that is too
\* short and more than maxIndexTokens longer ones.
Text(m) ==
  CASE m = 1 -> <<"fireball">>
    [] m = 2 -> <<"wind", "wind">>
    [] m = 3 -> <<"hp", "fireball", "wind", "rimuru">>
    [] OTHER -> <<"hp">>

\* BattleMessage.timestamp: Date.now() when the message was enqueued; the
\* enqueues of a run are at least one time unit apart.
Timestamp(m) == m

\* text.split(/\s+/).filter(word => word.length > 2)
Tokenize(words) == SelectSeq(words, LAMBDA w : WordLength(w) > 2)

\* extractTokens (lines 1653-1662): the first maxIndexTokens tokens.
extractTokens(m) ==
  LET tokens == Tokenize(Text(m))
  IN SubSeq(tokens, 1, IF Len(tokens) < maxIndexTokens THEN Len(tokens) ELSE maxIndexTokens)

\* A battle's index without entries.
EmptyIndex == [w \in Words |-> <<>>]

\* indexMessage (lines 1635-1651): the position is pushed on the list of every
\* token, repeated tokens included, and a list longer than maxIndexPositions
\* loses its oldest entries.
RECURSIVE IndexTokens(_, _, _)
IndexTokens(battleIndex, tokens, pos) ==
  IF tokens = <<>> THEN battleIndex
  ELSE LET positions == Append(battleIndex[Head(tokens)], pos)
           kept == IF Len(positions) > maxIndexPositions
                   THEN SubSeq(positions, Len(positions) - maxIndexPositions + 1, Len(positions))
                   ELSE positions
       IN IndexTokens([battleIndex EXCEPT ![Head(tokens)] = kept], Tail(tokens), pos)

indexMessage(battleIndex, m, chunkIndex, messageIndex) ==
  IndexTokens(battleIndex, extractTokens(m), <<chunkIndex, messageIndex>>)

\* updateSearchIndex (lines 1622-1633) from message j of the chunk on; the
\* messageIndex of the model counts from 1.
RECURSIVE IndexChunk(_, _, _, _)
IndexChunk(battleIndex, chunkIndex, ids, j) ==
  IF j > Len(ids) THEN battleIndex
  ELSE IndexChunk(indexMessage(battleIndex, ids[j], chunkIndex, j), chunkIndex, ids, j + 1)

updateSearchIndex(battleIndex, chunkIndex, ids) == IndexChunk(battleIndex, chunkIndex, ids, 1)

\* rebuildSearchIndexFromChunks (lines 1605-1618): the loaded chunks are indexed
\* in the order of the Map, on top of the entries the battle already has.
RECURSIVE IndexChunks(_, _, _)
IndexChunks(battleIndex, chs, order) ==
  IF order = <<>> THEN battleIndex
  ELSE IndexChunks(updateSearchIndex(battleIndex, Head(order), Ids(chs[Head(order)])), chs, Tail(order))

rebuildSearchIndexFromChunks(battleIndex, chs) == IndexChunks(battleIndex, chs, SortedSeq(DOMAIN chs))

\* searchInBattleIndex, lines 1707-1717: messageScores, a Map in insertion
\* order from position to the number of index entries found for it.
AddScore(scores, pos) ==
  IF \E i \in 1..Len(scores) : scores[i].pos = pos
  THEN [i \in 1..Len(scores) |-> IF scores[i].pos = pos THEN [scores[i] EXCEPT !.score = @ + 1] ELSE scores[i]]
  ELSE Append(scores, [pos |-> pos, score |-> 1])

RECURSIVE ScorePositions(_, _)
ScorePositions(scores, positions) ==
  IF positions = <<>> THEN scores
  ELSE ScorePositions(AddScore(scores, Head(positions)), Tail(positions))

RECURSIVE messageScores(_, _, _)
messageScores(battleIndex, queryTokens, scores) ==
  IF queryTokens = <<>> THEN scores
  ELSE messageScores(battleIndex, Tail(queryTokens),
                     ScorePositions(scores, battleIndex[Head(queryTokens)]))

\* searchInBattleIndex, lines 1719-1737, on the chunks of the battle's cache
\* entry (none without an entry): a SearchResult for every scored position that
\* holds a message; relevanceScore is score / den.
RECURSIVE ScoredResults(_, _, _, _)
ScoredResults(scores, chs, b, den) ==
  IF scores = <<>> THEN <<>>
  ELSE LET chunkIndex == Head(scores).pos[1]
           messageIndex == Head(scores).pos[2]
           rest == ScoredResults(Tail(scores), chs, b, den)
       IN IF chunkIndex \in DOMAIN chs /\ messageIndex <= Len(chs[chunkIndex])
          THEN <<[battleId |-> b, chunkIndex |-> chunkIndex, messageIndex |-> messageIndex,
                  message |-> chs[chunkIndex][messageIndex].id,
                  score |-> Head(scores).score, den |-> den]>> \o rest
          ELSE rest

Slice(s, limit) == SubSeq(s, 1, IF Len(s) < limit THEN Len(s) ELSE limit)

\* ---- SkillWebSocketManager: values ---------------------------------------
Keys == 1..NumKeys

\* A WebSocketMessage: its messageId, the updates of a batch_update (none for
\* a sync_request) and requiresAck.  NoMessage fills the field of the timeouts
\* that carry no message.
NoMessage == [messageId |-> 0, updates |-> <<>>, requiresAck |-> FALSE]

\* The object after construction (lines 93-117).  Fields of the class:
\* connectionState (isConnected, isConnecting, reconnectAttempts), pendingUpdates,
\* batchTimer and debounceTimers (0 for no handle), messageQueue, pendingAcks,
\* messageIdCounter, networkStats.messagesFailed.  The environment: socket, the
\* state of the WebSocket in this.ws; timeouts, the pending setTimeout callbacks;
\* nextHandle; now, the clock.  History: sockets (WebSocket objects created),
\* wire (messageIds given to ws.send), events (emitted <<name, id>>), batched
\* (updates given to addToBatch, with the time), submitted (sendSkillUpdate
\* calls), updates and syncs (calls made), last (the event handled last).
\* lim holds the limits of the run.
NewManager(lim) ==
  [isConnected |-> FALSE, isConnecting |-> FALSE, reconnectAttempts |-> 0,
   pendingUpdates |-> <<>>, batchTimer |-> 0, debounceTimers |-> [k \in Keys |-> 0],
   messageQueue |-> <<>>, pendingAcks |-> {}, messageIdCounter |-> 0, messagesFailed |-> 0,
   socket |-> "none", timeouts |-> {}, nextHandle |-> 1, now |-> 0,
   sockets |-> 0, wire |-> <<>>, events |-> <<>>, batched |-> <<>>, submitted |-> <<>>,
   updates |-> 0, syncs |-> 0, last |-> [kind |-> "new", id |-> 0, ok |-> TRUE], lim |-> lim]

\* No call is made.
NoLimits == [updates |-> 0, syncs |-> 0, time |-> 0]

\* ---- chunk texts: values --------------------------------------------------
\* A MessageChunk with the fields the texts depend on.
Chunk(messages, compressed) == [messages |-> messages, compressed |-> compressed]

\* A string kept in AsyncStorage under a chunk key: the JSON text of a chunk
\* (form "json"), what LZString.compressToUTF16 made of that text (form "lz"),
\* or a text that is neither (form "junk").
Stringify(chunk) == [form |-> "json", chunk |-> chunk]

Junk == [form |-> "junk", chunk |-> Chunk(<<>>, FALSE)]

\* The state of the chunk texts.  lib is the lz-string library of the build:
\* whether require('lz-string') succeeded (lines 1003-1008) and what
\* decompressFromUTF16 does with a text compressToUTF16 did not produce: it
\* throws, or it returns a string that is not the JSON text of a chunk.  store
\* is the chunk records of one battle, index -> text.  History: flushed (the
\* messages of each chunk stored), shrank (the chunks whose compressed text was
\* shorter), damaged (the texts replaced outside the program), loaded (the
\* result of the last loadBattleFromStorage, none after a change of store).
NewCodec(lib, enableCompression, lim) ==
  [lib |-> lib, enableCompression |-> enableCompression, store |-> EmptyChunks,
   flushed |-> EmptyChunks, shrank |-> {}, damaged |-> {}, loaded |-> <<>>, errors |-> 0, lim |-> lim]

NoLibrary == [present |-> FALSE, onPlain |-> "throws"]

\* Nothing is stored.
NoStoring == [chunks |-> 0, damaged |-> 0]

\* ---- tasks ---------------------------------------------------------------
Busy == {p \in TaskIds : tasks[p].op # "idle"}

CanStart == Cardinality(Busy) < cap.tasks

NewTask == CHOOSE p \in TaskIds : tasks[p].op = "idle" /\ \A q \in TaskIds : tasks[q].op = "idle" => p <= q

ActiveLogs == 1..cap.logs

\* The outcomes of an AsyncStorage operation: resolved (TRUE) or rejected.
Outcomes == IF fails < cap.fails THEN {TRUE, FALSE} ELSE {TRUE}

Count(ok) == IF ok THEN 0 ELSE 1

queueVars == <<writeQueues, enqueued, calls>>
syncVars == <<locked, waiters, flushTimers, messageQueue, emitted, heap>>
storeVars == <<metaStore, chunkStore, indexStore>>
statVars == <<errors, flushes, flushErrors>>

\* ---- Init ----------------------------------------------------------------
InitState ==
  /\ metaStore = [b \in Logs |-> <<>>]
  /\ chunkStore = [b \in Logs |-> EmptyChunks]
  /\ indexStore = <<>>
  /\ cache = <<>>
  /\ heap = [i \in ObjIds |-> <<>>]
  /\ writeQueues = [b \in Logs |-> [has |-> FALSE, msgs |-> <<>>]]
  /\ flushTimers = [b \in Logs |-> "none"]
  /\ messageQueue = <<>>
  /\ emitted = [b \in Logs |-> <<>>]
  /\ locked = [b \in Logs |-> FALSE]
  /\ waiters = [b \in Logs |-> <<>>]
  /\ globalMetaIndex = <<>>
  /\ memRead = [m \in MsgIds |-> FALSE]
  /\ nextId = 1
  /\ errors = 0
  /\ flushes = 0
  /\ flushErrors = [b \in Logs |-> 0]
  /\ fails = 0
  /\ tasks = [p \in TaskIds |-> IdleTask]
  /\ enqueued = [b \in Logs |-> <<>>]
  /\ calls = [gets |-> 0, marks |-> 0, clears |-> 0, zeroed |-> {}]
  /\ searchIndex = [b \in Logs |-> EmptyIndex]

Init ==
  /\ InitState
  /\ wsm = NewManager(NoLimits)
  /\ codec = NewCodec(NoLibrary, FALSE, NoStoring)
  /\ cap = [msgs |-> FewMsgs, tasks |-> MaxTasks - 1, fails |-> 0, logs |-> NumLogs,
            gets |-> MaxGets, marks |-> MaxMarks, clears |-> MaxClears, cacheSize |-> cacheSize]

\* The state after a restart of the application on the AsyncStorage a previous
\* run left behind: that run buffered message 1 on battle 1 and flushed it
\* (chunk 0), and initializeGlobalMetaIndex (lines 1284-1294) has read the
\* persisted index; everything in memory is new.
Restarted ==
  /\ metaStore = [b \in Logs |-> IF b = 1 THEN <<[NewMeta EXCEPT !.lastChunkIndex = 0,
                                       !.totalMessages = 1, !.unreadCount = 1]>> ELSE <<>>]
  /\ chunkStore = [b \in Logs |-> IF b = 1 THEN [i \in {0} |-> <<[id |-> 1, isRead |-> FALSE]>>]
                                  ELSE EmptyChunks]
  /\ indexStore = <<1>>
  /\ cache = <<>>
  /\ heap = [i \in ObjIds |-> <<>>]
  /\ writeQueues = [b \in Logs |-> [has |-> FALSE, msgs |-> <<>>]]
  /\ flushTimers = [b \in Logs |-> "none"]
  /\ messageQueue = <<>>
  /\ emitted = [b \in Logs |-> <<>>]
  /\ locked = [b \in Logs |-> FALSE]
  /\ waiters = [b \in Logs |-> <<>>]
  /\ globalMetaIndex = <<1>>
  /\ memRead = [m \in MsgIds |-> FALSE]
  /\ nextId = 2
  /\ errors = 0
  /\ flushes = 0
  /\ flushErrors = [b \in Logs |-> 0]
  /\ fails = 0
  /\ tasks = [p \in TaskIds |-> IdleTask]
  /\ enqueued = [b \in Logs |-> IF b = 1 THEN <<1>> ELSE <<>>]
  /\ calls = [gets |-> 0, marks |-> 0, clears |-> 0, zeroed |-> {}]
  /\ searchIndex = [b \in Logs |-> EmptyIndex]

\* ---- Mutex ---------------------------------------------------------------
\* Mutex.release: the lock passes to the first waiter, who resumes after its
\* mutex.acquire() in flushBattle or clearBattleLog; with no waiter the lock is
\* freed.
ReleasedLocked(b) == IF waiters[b] = <<>> THEN [locked EXCEPT ![b] = FALSE] ELSE locked

ReleasedWaiters(b) == IF waiters[b] = <<>> THEN waiters ELSE [waiters EXCEPT ![b] = Tail(@)]

ReleasedTasks(ts, b) ==
  IF waiters[b] = <<>> THEN ts
  ELSE [ts EXCEPT ![Head(waiters[b])].pc = IF @ = "clearWait" THEN "clearTry" ELSE "flushTry"]

\* ---- enqueueMessage ------------------------------------------------------
\* An end of enqueueMessage that leaves the sync queue alone; C24 must tell it
\* from the source's.
EnqFinishUnsynced(p, ts) ==
  /\ messageQueue' = messageQueue
  /\ emitted' = [emitted EXCEPT ![tasks[p].log] = Append(@, tasks[p].msg)]
  /\ tasks' = [ts EXCEPT ![p] = IdleTask]

\* The end of enqueueMessage (lines 1338-1353): the QueuedMessage is appended
\* to the sync queue, the message is emitted as battle_<b> to the callbacks of
\* subscribe (lines 1350, 2096-2098) and the call returns.
EnqFinish(p, ts) ==
  /\ messageQueue' = Append(messageQueue, tasks[p].msg)
  /\ emitted' = [emitted EXCEPT ![tasks[p].log] = Append(@, tasks[p].msg)]
  /\ tasks' = [ts EXCEPT ![p] = IdleTask]

\* flushBattle's return to its caller: enqueueMessage goes on to its end, a
\* timer callback or a direct call is over.
FlushReturn(p, ts) ==
  IF tasks[p].ret = "enq"
  THEN EnqFinish(p, ts)
  ELSE /\ tasks' = [ts EXCEPT ![p] = IdleTask]
       /\ UNCHANGED <<messageQueue, emitted>>

\* A flushBattle that requests the mutex before it looks at the queue; C15 must
\* tell it from the flushBattle of the source.
FlushCallAlways(p, b, ret) ==
  LET me == [IdleTask EXCEPT !.ret = ret, !.log = b, !.msg = tasks[p].msg,
                            !.op = IF ret = "enq" THEN "enq" ELSE "flush"]
  IN /\ UNCHANGED <<messageQueue, emitted>>
     /\ IF locked[b]
        THEN /\ waiters' = [waiters EXCEPT ![b] = Append(@, p)]
             /\ tasks' = [tasks EXCEPT ![p] = [me EXCEPT !.pc = "flushWait", !.qlive = TRUE,
                                                         !.waited = TRUE]]
             /\ UNCHANGED locked
        ELSE /\ locked' = [locked EXCEPT ![b] = TRUE]
             /\ tasks' = [tasks EXCEPT ![p] = [me EXCEPT !.pc = "flushTry", !.qlive = TRUE]]
             /\ UNCHANGED waiters

\* The start of flushBattle (lines 1419-1424), called by task p with the
\* return address ret: the queue is captured by reference, an empty or
\* missing queue returns at once, otherwise the mutex is requested.  History:
\* waited records that the lock was held, that is, that another flushBattle of
\* the battle was in flight when this one was called.
FlushCall(p, b, ret) ==
  LET me == [IdleTask EXCEPT !.ret = ret, !.log = b, !.msg = tasks[p].msg,
                            !.op = IF ret = "enq" THEN "enq" ELSE "flush"]
  IN IF ~writeQueues[b].has \/ writeQueues[b].msgs = <<>>
     THEN /\ IF ret = "enq"
             THEN EnqFinish(p, tasks)
             ELSE UNCHANGED <<tasks, messageQueue, emitted>>
          /\ UNCHANGED <<locked, waiters>>
     ELSE /\ UNCHANGED <<messageQueue, emitted>>
          /\ IF locked[b]
             THEN /\ waiters' = [waiters EXCEPT ![b] = Append(@, p)]
                  /\ tasks' = [tasks EXCEPT ![p] = [me EXCEPT !.pc = "flushWait", !.qlive = TRUE,
                                                              !.waited = TRUE]]
                  /\ UNCHANGED locked
             ELSE /\ locked' = [locked EXCEPT ![b] = TRUE]
                  /\ tasks' = [tasks EXCEPT ![p] = [me EXCEPT !.pc = "flushTry", !.qlive = TRUE]]
                  /\ UNCHANGED waiters

\* scheduleFlush (lines 1407-1417): a pending timeout is cleared and a new one armed.
scheduleFlush(b) == flushTimers' = [flushTimers EXCEPT ![b] = "armed"]

\* enqueueMessage after ensureBattleMetaExists (lines 1321-1328): the message is
\* pushed on the battle's queue and updateUnreadCountInMemory(+1) reads the meta.
\* History: reached records that the push brought the buffer to flushThreshold
\* messages or more.
EnqPush(p) ==
  LET b == tasks[p].log
      old == IF writeQueues[b].has THEN writeQueues[b].msgs ELSE <<>>
  IN /\ writeQueues' = [writeQueues EXCEPT ![b] = [has |-> TRUE, msgs |-> Append(old, tasks[p].msg)]]
     /\ enqueued' = [enqueued EXCEPT ![b] = Append(@, tasks[p].msg)]
     /\ tasks' = [tasks EXCEPT ![p].pc = "unreadGet", ![p].delta = 1, ![p].widx = <<>>,
                               ![p].reached = (Len(old) + 1 >= flushThreshold)]
     /\ UNCHANGED <<syncVars, calls>>

\* enqueueMessage, first step (lines 1306-1319, 1357-1360): the id is generated
\* and ensureBattleMetaExists asks for the meta record.
EnqueueMessage(b) ==
  /\ b \in ActiveLogs
  /\ nextId <= cap.msgs
  /\ CanStart
  /\ tasks' = [tasks EXCEPT ![NewTask] =
                 [IdleTask EXCEPT !.op = "enq", !.pc = "ensureGet", !.log = b, !.msg = nextId]]
  /\ nextId' = nextId + 1
  /\ calls' = [calls EXCEPT !.zeroed = @ \ {b}]
  /\ UNCHANGED <<storeVars, statVars, writeQueues, enqueued, syncVars, cache, globalMetaIndex, memRead, fails, searchIndex, cap, wsm, codec>>

\* ensureBattleMetaExists after getItem (lines 1360-1374, 1382-1385).
EnsureGet(p, ok) ==
  /\ tasks[p].pc = "ensureGet"
  /\ fails' = fails + Count(ok)
  /\ errors' = errors + Count(ok)
  /\ IF ok /\ metaStore[tasks[p].log] = <<>>
     THEN /\ tasks' = [tasks EXCEPT ![p].pc = "ensureSet"]
          /\ UNCHANGED <<queueVars, syncVars>>
     ELSE EnqPush(p)
  /\ UNCHANGED <<storeVars, flushes, flushErrors, cache, globalMetaIndex, memRead, nextId, searchIndex, cap, wsm, codec>>

\* ensureBattleMetaExists after setItem of the new meta (lines 1374-1380).
EnsureSet(p, ok) ==
  LET b == tasks[p].log
      known == \E i \in 1..Len(globalMetaIndex) : globalMetaIndex[i] = b
      index == IF ok /\ ~known THEN Append(globalMetaIndex, b) ELSE globalMetaIndex
  IN /\ tasks[p].pc = "ensureSet"
     /\ fails' = fails + Count(ok)
     /\ errors' = errors + Count(ok)
     /\ metaStore' = IF ok THEN [metaStore EXCEPT ![b] = <<NewMeta>>] ELSE metaStore
     /\ globalMetaIndex' = index
     /\ IF ok /\ ~known
        THEN /\ tasks' = [tasks EXCEPT ![p].pc = "ensureIdx", ![p].widx = index]
             /\ UNCHANGED <<queueVars, syncVars>>
        ELSE EnqPush(p)
     /\ UNCHANGED <<chunkStore, indexStore, flushes, flushErrors, cache, memRead, nextId, searchIndex, cap, wsm, codec>>

\* updateGlobalMetaIndex after setItem (lines 1296-1302): a rejection is only logged.
EnsureIdx(p, ok) ==
  /\ tasks[p].pc = "ensureIdx"
  /\ fails' = fails + Count(ok)
  /\ indexStore' = IF ok THEN tasks[p].widx ELSE indexStore
  /\ EnqPush(p)
  /\ UNCHANGED <<metaStore, chunkStore, statVars, cache, globalMetaIndex, memRead, nextId, searchIndex, cap, wsm, codec>>

\* ---- updateUnreadCountInMemory -------------------------------------------
\* What follows updateUnreadCountInMemory in its caller.  enqueueMessage
\* (lines 1330-1336): the queue is looked up again and either flushBattle is
\* called or the timer is armed; when clearBattleLog has deleted the queue in
\* the meantime, queue.length throws and enqueueMessage rejects.
\* markMessagesAsRead (line 1853): with ids, every chunk of the cached object is
\* written back.
AfterUnread(p) ==
  LET b == tasks[p].log
  IN /\ calls' = IF tasks[p].op = "mark" /\ ~tasks[p].hasIds
                 THEN [calls EXCEPT !.zeroed = @ \cup {b}] ELSE calls
     /\ IF tasks[p].op = "enq"
        THEN IF ~writeQueues[b].has
             THEN /\ tasks' = [tasks EXCEPT ![p] = IdleTask]
                  /\ UNCHANGED syncVars
             ELSE
             IF Len(writeQueues[b].msgs) >= flushThreshold
             THEN /\ FlushCall(p, b, "enq")
                  /\ UNCHANGED <<flushTimers, heap>>
             ELSE /\ scheduleFlush(b)
                  /\ EnqFinish(p, tasks)
                  /\ UNCHANGED <<locked, waiters, heap>>
        ELSE IF tasks[p].hasIds
             THEN /\ tasks' = [tasks EXCEPT ![p].pc = "markSave", ![p].meta = <<>>, ![p].delta = 0,
                                            ![p].chunks = SerializeChunks(heap[tasks[p].bd][1].chunks, memRead)]
                  /\ UNCHANGED syncVars
             ELSE /\ tasks' = [tasks EXCEPT ![p] = IdleTask]
                  /\ UNCHANGED syncVars

\* An update of the count without Math.max; C23 must tell it from the source's.
UnreadAfterUncut(count, delta) == count + delta

\* meta.unreadCount = Math.max(0, meta.unreadCount + delta)
UnreadAfter(count, delta) == IF count + delta < 0 THEN 0 ELSE count + delta

\* updateUnreadCountInMemory after getItem (lines 1391-1398): the meta read is
\* changed and handed to setItem; without a meta, or on a rejection, nothing is written.
UnreadGet(p, ok) ==
  LET b == tasks[p].log
  IN /\ tasks[p].pc = "unreadGet"
     /\ fails' = fails + Count(ok)
     /\ IF ok /\ metaStore[b] # <<>>
        THEN /\ tasks' = [tasks EXCEPT ![p].pc = "unreadSet",
                            ![p].meta = <<[metaStore[b][1] EXCEPT
                                !.unreadCount = UnreadAfter(@, tasks[p].delta)]>>]
             /\ UNCHANGED <<syncVars, calls>>
        ELSE AfterUnread(p)
     /\ UNCHANGED <<storeVars, statVars, writeQueues, enqueued, cache, globalMetaIndex, memRead, nextId, searchIndex, cap, wsm, codec>>

\* updateUnreadCountInMemory after setItem (lines 1398-1402).
UnreadSet(p, ok) ==
  LET b == tasks[p].log
  IN /\ tasks[p].pc = "unreadSet"
     /\ fails' = fails + Count(ok)
     /\ metaStore' = IF ok THEN [metaStore EXCEPT ![b] = tasks[p].meta] ELSE metaStore
     /\ AfterUnread(p)
     /\ UNCHANGED <<chunkStore, indexStore, statVars, writeQueues, enqueued, cache, globalMetaIndex, memRead, nextId, searchIndex, cap, wsm, codec>>

\* ---- flushBattle ---------------------------------------------------------
\* AsyncStorage.multiSet of serialized chunks.
PutChunks(stored, payload) ==
  [i \in (DOMAIN stored) \cup (DOMAIN payload) |-> IF i \in DOMAIN payload THEN payload[i] ELSE stored[i]]

\* The array a flush captured at line 1420: the battle's current queue while
\* writeQueues still holds that array, else the array as it was when replaced.
CapturedQueue(p) ==
  IF tasks[p].qlive THEN writeQueues[tasks[p].log].msgs ELSE tasks[p].qsnap

\* History: the battle's buffer when the flush entered its try block (line 1426).
QStart(p) ==
  IF tasks[p].pc = "flushTry" THEN writeQueues[tasks[p].log].msgs ELSE tasks[p].qstart

\* The index of the chunk a flush creates (line 1457).
NewChunkIndex(meta) == meta.lastChunkIndex + 1

\* flushBattle, lines 1456-1492, on the object ref of heap h: the new chunk takes
\* a copy of the captured queue, the object's meta and chunks are updated in
\* place, and saveBattleChunks serializes the new chunk for multiSet.
CreateChunk(p, ref, h, c) ==
  LET obj == h[ref][1]
      queue == CapturedQueue(p)
      idx == NewChunkIndex(obj.meta)
      msgs == [i \in 1..Len(queue) |-> OrigEntry(queue[i])]
      meta2 == [obj.meta EXCEPT !.lastChunkIndex = idx, !.totalMessages = @ + Len(queue)]
      chunks2 == [i \in (DOMAIN obj.chunks) \cup {idx} |-> IF i = idx THEN msgs ELSE obj.chunks[i]]
      h2 == [h EXCEPT ![ref] = <<[meta |-> meta2, chunks |-> chunks2]>>]
  IN /\ tasks' = [tasks EXCEPT ![p].pc = "saveChunk", ![p].bd = ref, ![p].meta = <<>>,
                               ![p].qstart = QStart(p),
                               ![p].chunks = [i \in {idx} |-> Serialize(msgs, memRead)]]
     /\ heap' = Collect(h2, c, tasks')

\* A new {meta, chunks} object on the heap.
Alloc(h, meta, chunks) == [h EXCEPT ![FreeRef(h)] = <<[meta |-> meta, chunks |-> chunks]>>]

\* The end of flushBattle: finally releases the mutex (line 1518) and the call returns.
FlushEnd(p) ==
  LET b == tasks[p].log
  IN /\ locked' = ReleasedLocked(b)
     /\ waiters' = ReleasedWaiters(b)
     /\ FlushReturn(p, ReleasedTasks(tasks, b))
     /\ heap' = Collect(heap, cache', tasks')

\* A catch block that emits flushError without counting the error; C5 must
\* tell it from the catch block of the source.
FlushCatchUncounted(b) ==
  /\ errors' = errors
  /\ flushErrors' = [flushErrors EXCEPT ![b] = @ + 1]

\* The catch block of flushBattle (lines 1513-1516).
FlushCatch(b) ==
  /\ errors' = errors + 1
  /\ flushErrors' = [flushErrors EXCEPT ![b] = @ + 1]

\* flushBattle once the mutex is granted (lines 1426-1437): the timer is cleared
\* and the battle is looked up in the cache; a miss starts loadBattleFromStorage.
FlushTry(p) ==
  LET b == tasks[p].log
      c == LRUGet(cache, b)
  IN /\ tasks[p].pc = "flushTry"
     /\ flushTimers' = [flushTimers EXCEPT ![b] = "none"]
     /\ cache' = c
     /\ IF CacheHas(cache, b)
        THEN CreateChunk(p, CacheRef(cache, b), heap, c)
        ELSE /\ tasks' = [tasks EXCEPT ![p].pc = "load1", ![p].qstart = QStart(p)]
             /\ UNCHANGED heap
     /\ UNCHANGED <<storeVars, statVars, queueVars, locked, waiters, messageQueue, emitted,
                    globalMetaIndex, memRead, nextId, fails, searchIndex, cap, wsm, codec>>

\* loadBattleFromStorage inside flushBattle, after getItem of the meta (lines
\* 1560-1576, 1597-1602; 1439-1454): no meta or a rejection gives null and the
\* flush builds a fresh object; a meta without chunks is returned as it is.
FlushLoad1(p, ok) ==
  LET b == tasks[p].log
      found == ok /\ metaStore[b] # <<>>
  IN /\ tasks[p].pc = "load1" /\ tasks[p].op \in {"flush", "enq"}
     /\ fails' = fails + Count(ok)
     /\ errors' = errors + Count(ok)
     /\ IF found /\ metaStore[b][1].lastChunkIndex >= 0
        THEN /\ tasks' = [tasks EXCEPT ![p].pc = "load2", ![p].meta = metaStore[b]]
             /\ UNCHANGED heap
        ELSE CreateChunk(p, FreeRef(heap),
                         Alloc(heap, IF found THEN metaStore[b][1] ELSE NewMeta, EmptyChunks), cache)
     /\ UNCHANGED <<storeVars, flushes, flushErrors, queueVars, locked, waiters, messageQueue, emitted,
                    flushTimers, cache, globalMetaIndex, memRead, nextId, searchIndex, cap, wsm, codec>>

\* loadBattleFromStorage, line 1595: the search index after the chunks up to
\* last were loaded.
LoadedIndex(b, last) ==
  [searchIndex EXCEPT ![b] = rebuildSearchIndexFromChunks(@, LoadChunks(chunkStore[b], last))]

\* loadBattleFromStorage inside flushBattle, after multiGet of the chunks
\* (lines 1576-1602).
FlushLoad2(p, ok) ==
  LET b == tasks[p].log
      meta == tasks[p].meta[1]
  IN /\ tasks[p].pc = "load2" /\ tasks[p].op \in {"flush", "enq"}
     /\ fails' = fails + Count(ok)
     /\ errors' = errors + Count(ok)
     /\ CreateChunk(p, FreeRef(heap),
                    IF ok THEN Alloc(heap, meta, LoadChunks(chunkStore[b], meta.lastChunkIndex))
                    ELSE Alloc(heap, NewMeta, EmptyChunks), cache)
     /\ searchIndex' = IF ok THEN LoadedIndex(b, meta.lastChunkIndex) ELSE searchIndex
     /\ UNCHANGED <<storeVars, flushes, flushErrors, queueVars, locked, waiters, messageQueue, emitted,
                    flushTimers, cache, globalMetaIndex, memRead, nextId, cap, wsm, codec>>

\* flushBattle after saveBattleChunks (lines 1492-1493): saveBattleMeta
\* serializes the object's meta; a rejection goes to the catch block.  The task
\* keeps newChunk.
FlushSaveChunk(p, ok) ==
  LET b == tasks[p].log
  IN /\ tasks[p].pc = "saveChunk"
     /\ fails' = fails + Count(ok)
     /\ IF ok
        THEN /\ chunkStore' = [chunkStore EXCEPT ![b] = PutChunks(@, tasks[p].chunks)]
             /\ tasks' = [tasks EXCEPT ![p].pc = "saveMeta",
                                       ![p].meta = <<heap[tasks[p].bd][1].meta>>]
             /\ UNCHANGED <<statVars, syncVars, cache>>
        ELSE /\ FlushCatch(b)
             /\ UNCHANGED <<chunkStore, flushes, flushTimers, cache>>
             /\ FlushEnd(p)
     /\ UNCHANGED <<metaStore, indexStore, queueVars, globalMetaIndex, memRead, nextId, searchIndex, cap, wsm, codec>>

\* writeQueues.set(battleId, []) (line 1499): the battle gets a new array; a task
\* that captured the old one keeps it, with the content it had.
FrozenTasks(ts, b) ==
  [q \in TaskIds |->
     IF ts[q].qlive /\ ts[q].log = b
     THEN [ts[q] EXCEPT !.qlive = FALSE, !.qsnap = writeQueues[b].msgs]
     ELSE ts[q]]

\* pruneBattleIfNeeded, lines 1970-1975: the chunk indices it deletes from the object.
ChunksToRemove(chs) ==
  LET sorted == SortedSeq(DOMAIN chs)
      n == Cardinality(DOMAIN chs) - maxChunksPerBattle
  IN {sorted[i] : i \in 1..n}

\* A pruning that renumbers: lastChunkIndex becomes the number of chunks kept,
\* less one; C9 must tell it from the pruning of the source.
RenumberedLastChunkIndex(kept) == Cardinality(DOMAIN kept) - 1

\* pruneBattleIfNeeded, line 1978: meta.lastChunkIndex after the deletion.
PrunedLastChunkIndex(kept) == Max(DOMAIN kept)

\* flushBattle after saveBattleMeta (lines 1493-1511, 1961-1981): the new chunk
\* is indexed for search, the queue is replaced by an empty one, the object is
\* put in the cache, and
\* pruneBattleIfNeeded runs up to its saveBattleChunks when the object holds more
\* than maxChunksPerBattle chunks.  A rejection goes to the catch block.
FlushSaveMeta(p, ok) ==
  LET b == tasks[p].log
      ref == tasks[p].bd
      obj == heap[ref][1]
      c == LRUGet(LRUSet(cache, b, ref), b)
      over == Cardinality(DOMAIN obj.chunks) > maxChunksPerBattle
      kept == [i \in (DOMAIN obj.chunks) \ ChunksToRemove(obj.chunks) |-> obj.chunks[i]]
      pruned == [meta |-> [obj.meta EXCEPT !.lastChunkIndex = PrunedLastChunkIndex(kept)], chunks |-> kept]
      ts == FrozenTasks(tasks, b)
      newChunkIndex == CHOOSE i \in DOMAIN tasks[p].chunks : TRUE
  IN /\ tasks[p].pc = "saveMeta"
     /\ fails' = fails + Count(ok)
     /\ IF ok
        THEN /\ metaStore' = [metaStore EXCEPT ![b] = tasks[p].meta]
             /\ searchIndex' = [searchIndex EXCEPT ![b] =
                                 updateSearchIndex(@, newChunkIndex, Ids(tasks[p].chunks[newChunkIndex]))]
             /\ writeQueues' = [writeQueues EXCEPT ![b] = [has |-> TRUE, msgs |-> <<>>]]
             /\ cache' = c
             /\ flushes' = flushes + 1
             /\ UNCHANGED <<errors, flushErrors>>
             /\ IF over
                THEN /\ tasks' = [ts EXCEPT ![p].pc = "pruneChunks", ![p].meta = <<>>,
                                            ![p].chunks = SerializeChunks(kept, memRead)]
                     /\ heap' = Collect([heap EXCEPT ![ref] = <<pruned>>], c, tasks')
                     /\ UNCHANGED <<locked, waiters, messageQueue, emitted>>
                ELSE /\ locked' = ReleasedLocked(b)
                     /\ waiters' = ReleasedWaiters(b)
                     /\ FlushReturn(p, ReleasedTasks(ts, b))
                     /\ heap' = Collect(heap, c, tasks')
        ELSE /\ FlushCatch(b)
             /\ UNCHANGED <<metaStore, writeQueues, cache, flushes, searchIndex>>
             /\ FlushEnd(p)
     /\ UNCHANGED <<chunkStore, indexStore, enqueued, calls, flushTimers, globalMetaIndex, memRead, nextId, cap, wsm, codec>>

\* pruneBattleIfNeeded after saveBattleChunks (lines 1981-1986): saveBattleMeta
\* serializes the meta; a rejection is only logged and flushBattle ends.
FlushPruneChunks(p, ok) ==
  LET b == tasks[p].log
  IN /\ tasks[p].pc = "pruneChunks"
     /\ fails' = fails + Count(ok)
     /\ IF ok
        THEN /\ chunkStore' = [chunkStore EXCEPT ![b] = PutChunks(@, tasks[p].chunks)]
             /\ tasks' = [tasks EXCEPT ![p].pc = "pruneMeta", ![p].chunks = EmptyChunks,
                                       ![p].meta = <<heap[tasks[p].bd][1].meta>>]
             /\ UNCHANGED <<syncVars, cache>>
        ELSE /\ UNCHANGED <<chunkStore, flushTimers, cache>>
             /\ FlushEnd(p)
     /\ UNCHANGED <<metaStore, indexStore, statVars, queueVars, globalMetaIndex, memRead, nextId, searchIndex, cap, wsm, codec>>

\* pruneBattleIfNeeded after saveBattleMeta (lines 1982-1986), then the end of flushBattle.
FlushPruneMeta(p, ok) ==
  LET b == tasks[p].log
  IN /\ tasks[p].pc = "pruneMeta"
     /\ fails' = fails + Count(ok)
     /\ metaStore' = IF ok THEN [metaStore EXCEPT ![b] = tasks[p].meta] ELSE metaStore
     /\ UNCHANGED <<flushTimers, cache>>
     /\ FlushEnd(p)
     /\ UNCHANGED <<chunkStore, indexStore, statVars, queueVars, globalMetaIndex, memRead, nextId, searchIndex, cap, wsm, codec>>

\* The timeout armed by scheduleFlush fires (lines 1412-1414): flushBattle is called.
TimerFire(b) ==
  /\ flushTimers[b] = "armed"
  /\ CanStart
  /\ flushTimers' = [flushTimers EXCEPT ![b] = "stale"]
  /\ FlushCall(NewTask, b, "none")
  /\ UNCHANGED <<storeVars, statVars, queueVars, heap, cache, globalMetaIndex, memRead, nextId, fails, searchIndex, cap, wsm, codec>>

\* A direct call of flushBattle (as flush() makes, lines 2030-2036).
StartFlush(b) ==
  /\ b \in ActiveLogs
  /\ CanStart
  /\ FlushCall(NewTask, b, "none")
  /\ UNCHANGED <<storeVars, statVars, queueVars, heap, flushTimers, cache, globalMetaIndex,
                 memRead, nextId, fails, searchIndex, cap, wsm, codec>>

\* ---- getRecentMessages ---------------------------------------------------
\* getRecentMessages (lines 1744-1755): a cache hit answers at once (the key
\* becomes the most recently used); a miss starts loadBattleFromStorage.
GetRecentMessages(b) ==
  /\ b \in ActiveLogs
  /\ IF CacheHas(cache, b)
     THEN /\ cache' = LRUGet(cache, b)
          /\ cache' # cache
          /\ UNCHANGED tasks
     ELSE /\ CanStart /\ calls.gets < cap.gets
          /\ tasks' = [tasks EXCEPT ![NewTask] = [IdleTask EXCEPT !.op = "get", !.pc = "load1", !.log = b]]
          /\ UNCHANGED cache
  /\ calls' = IF CacheHas(cache, b) THEN calls ELSE [calls EXCEPT !.gets = @ + 1]
  /\ UNCHANGED <<storeVars, statVars, writeQueues, enqueued, syncVars, globalMetaIndex, memRead, nextId, fails, searchIndex, cap, wsm, codec>>

\* getRecentMessages after the load (lines 1755-1763): the loaded object is put in the cache.
GetCache(p, h) ==
  /\ cache' = LRUSet(cache, tasks[p].log, FreeRef(heap))
  /\ tasks' = [tasks EXCEPT ![p] = IdleTask]
  /\ heap' = Collect(h, cache', tasks')

\* loadBattleFromStorage inside getRecentMessages, after getItem of the meta.
GetLoad1(p, ok) ==
  LET b == tasks[p].log
      found == ok /\ metaStore[b] # <<>>
  IN /\ tasks[p].pc = "load1" /\ tasks[p].op = "get"
     /\ fails' = fails + Count(ok)
     /\ errors' = errors + Count(ok)
     /\ IF found
        THEN IF metaStore[b][1].lastChunkIndex >= 0
             THEN /\ tasks' = [tasks EXCEPT ![p].pc = "load2", ![p].meta = metaStore[b]]
                  /\ UNCHANGED <<heap, cache>>
             ELSE GetCache(p, Alloc(heap, metaStore[b][1], EmptyChunks))
        ELSE /\ tasks' = [tasks EXCEPT ![p] = IdleTask]
             /\ UNCHANGED <<heap, cache>>
     /\ UNCHANGED <<storeVars, flushes, flushErrors, queueVars, locked, waiters, messageQueue, emitted,
                    flushTimers, globalMetaIndex, memRead, nextId, searchIndex, cap, wsm, codec>>

\* loadBattleFromStorage inside getRecentMessages, after multiGet of the chunks.
GetLoad2(p, ok) ==
  LET b == tasks[p].log
      meta == tasks[p].meta[1]
  IN /\ tasks[p].pc = "load2" /\ tasks[p].op = "get"
     /\ fails' = fails + Count(ok)
     /\ errors' = errors + Count(ok)
     /\ IF ok
        THEN GetCache(p, Alloc(heap, meta, LoadChunks(chunkStore[b], meta.lastChunkIndex)))
        ELSE /\ tasks' = [tasks EXCEPT ![p] = IdleTask]
             /\ UNCHANGED <<heap, cache>>
     /\ searchIndex' = IF ok THEN LoadedIndex(b, meta.lastChunkIndex) ELSE searchIndex
     /\ UNCHANGED <<storeVars, flushes, flushErrors, queueVars, locked, waiters, messageQueue, emitted,
                    flushTimers, globalMetaIndex, memRead, nextId, cap, wsm, codec>>

\* ---- markMessagesAsRead --------------------------------------------------
\* The message objects of a cached battle that markMessagesAsRead(ids) flips
\* (lines 1841-1849): those whose id is in ids and that are not read yet.
OrigToFlip(chs, ids, mr) ==
  {chs[i][j].id : <<i, j>> \in {x \in (DOMAIN chs) \X MsgIds :
       x[2] <= Len(chs[x[1]]) /\ chs[x[1]][x[2]].orig
       /\ chs[x[1]][x[2]].id \in ids /\ ~mr[chs[x[1]][x[2]].id]}}

ParsedToFlip(chs, ids) ==
  {x \in (DOMAIN chs) \X (1..(2 * MaxMsgs)) :
       x[2] <= Len(chs[x[1]]) /\ ~chs[x[1]][x[2]].orig
       /\ chs[x[1]][x[2]].id \in ids /\ ~chs[x[1]][x[2]].isRead}

FlippedChunks(chs, ids) ==
  [i \in DOMAIN chs |->
     [j \in 1..Len(chs[i]) |->
        IF ~chs[i][j].orig /\ chs[i][j].id \in ids THEN [chs[i][j] EXCEPT !.isRead = TRUE] ELSE chs[i][j]]]

\* markMessagesAsRead(battleId, [m]) (lines 1835-1852): on a cache hit the
\* matching unread messages are flipped in place and, when there are any,
\* updateUnreadCountInMemory(-unreadReduction) reads the meta.
MarkMessagesAsRead(b, m) ==
  LET ref == CacheRef(cache, b)
      obj == heap[ref][1]
      origs == OrigToFlip(obj.chunks, {m}, memRead)
      parsed == ParsedToFlip(obj.chunks, {m})
      unreadReduction == Cardinality(origs) + Cardinality(parsed)
  IN /\ b \in ActiveLogs /\ m < nextId
     /\ CacheHas(cache, b)
     /\ cache' = LRUGet(cache, b)
     /\ IF unreadReduction > 0
        THEN /\ CanStart /\ calls.marks < cap.marks
             /\ calls' = [calls EXCEPT !.marks = @ + 1]
             /\ memRead' = [x \in MsgIds |-> memRead[x] \/ x \in origs]
             /\ tasks' = [tasks EXCEPT ![NewTask] =
                            [IdleTask EXCEPT !.op = "mark", !.pc = "unreadGet", !.log = b, !.bd = ref,
                                             !.hasIds = TRUE, !.ids = {m},
                                             !.delta = 0 - unreadReduction]]
             /\ heap' = [heap EXCEPT ![ref] = <<[obj EXCEPT !.chunks = FlippedChunks(obj.chunks, {m})]>>]
        ELSE /\ cache' # cache
             /\ UNCHANGED <<memRead, tasks, heap, calls>>
     /\ UNCHANGED <<storeVars, statVars, writeQueues, enqueued, locked, waiters, flushTimers, messageQueue, emitted,
                    globalMetaIndex, nextId, fails, searchIndex, cap, wsm, codec>>

\* markMessagesAsRead(battleId) without ids (line 1858).
MarkAllAsRead(b) ==
  /\ b \in ActiveLogs
  /\ CanStart /\ calls.marks < cap.marks
  /\ calls' = [calls EXCEPT !.marks = @ + 1]
  /\ tasks' = [tasks EXCEPT ![NewTask] =
                 [IdleTask EXCEPT !.op = "mark", !.pc = "unreadGet", !.log = b, !.delta = 0 - 999999]]
  /\ UNCHANGED <<storeVars, statVars, writeQueues, enqueued, syncVars, cache, globalMetaIndex, memRead, nextId, fails, searchIndex, cap, wsm, codec>>

\* markMessagesAsRead after saveBattleChunks (lines 1853, 1860-1862): a rejection is only logged.
MarkSave(p, ok) ==
  LET b == tasks[p].log
  IN /\ tasks[p].pc = "markSave"
     /\ fails' = fails + Count(ok)
     /\ chunkStore' = IF ok THEN [chunkStore EXCEPT ![b] = PutChunks(@, tasks[p].chunks)] ELSE chunkStore
     /\ tasks' = [tasks EXCEPT ![p] = IdleTask]
     /\ heap' = Collect(heap, cache, tasks')
     /\ UNCHANGED <<metaStore, indexStore, statVars, queueVars, locked, waiters, flushTimers,
                    messageQueue, emitted, cache, globalMetaIndex, memRead, nextId, searchIndex, cap, wsm, codec>>

\* ---- clearBattleLog, clearAllLogs -----------------------------------------
\* A call of clearBattleLog: on its own (ret "none") or from the loop of
\* clearAllLogs (ret "all").
ClearTask(ret) == [IdleTask EXCEPT !.op = "clear", !.ret = ret]

\* clearBattleLog up to mutex.acquire() (lines 1886-1889), called by task p as
\* the call me, on the mutexes lk, ws and the tasks ts.
ClearCall(p, b, me, lk, ws, ts) ==
  IF lk[b]
  THEN /\ locked' = lk
       /\ waiters' = [ws EXCEPT ![b] = Append(@, p)]
       /\ tasks' = [ts EXCEPT ![p] = [me EXCEPT !.log = b, !.pc = "clearWait"]]
  ELSE /\ locked' = [lk EXCEPT ![b] = TRUE]
       /\ waiters' = ws
       /\ tasks' = [ts EXCEPT ![p] = [me EXCEPT !.log = b, !.pc = "clearTry"]]

\* A client calls clearBattleLog(b).
ClearBattleLog(b) ==
  /\ b \in ActiveLogs
  /\ CanStart /\ calls.clears < cap.clears
  /\ calls' = [calls EXCEPT !.clears = @ + 1]
  /\ ClearCall(NewTask, b, ClearTask("none"), locked, waiters, tasks)
  /\ UNCHANGED <<storeVars, statVars, writeQueues, enqueued, flushTimers, messageQueue, emitted, heap, cache,
                 globalMetaIndex, memRead, nextId, fails, searchIndex, cap, wsm, codec>>

\* Array.splice(indexOf(b), 1)
IndexWithout(index, b) == SelectSeq(index, LAMBDA x : x # b)

\* clearBattleLog once the mutex is granted (lines 1891-1915): the cache entry,
\* the write queue, the timer and the search index of the battle are deleted,
\* the battle is taken out of globalMetaIndex (and then the index is
\* persisted), and loadBattleFromStorage asks for the meta.
ClearTry(p) ==
  LET b == tasks[p].log
      known == \E i \in 1..Len(globalMetaIndex) : globalMetaIndex[i] = b
      index == IndexWithout(globalMetaIndex, b)
      ts == FrozenTasks(tasks, b)
  IN /\ tasks[p].pc = "clearTry"
     /\ cache' = CacheWithout(cache, b)
     /\ writeQueues' = [writeQueues EXCEPT ![b] = [has |-> FALSE, msgs |-> <<>>]]
     /\ flushTimers' = [flushTimers EXCEPT ![b] = "none"]
     /\ searchIndex' = [searchIndex EXCEPT ![b] = EmptyIndex]
     /\ globalMetaIndex' = index
     /\ tasks' = IF known THEN [ts EXCEPT ![p].pc = "clearIdx", ![p].widx = index]
                 ELSE [ts EXCEPT ![p].pc = "load1"]
     /\ heap' = Collect(heap, cache', tasks')
     /\ UNCHANGED <<storeVars, statVars, enqueued, calls, locked, waiters, messageQueue, emitted, memRead,
                    nextId, fails, cap, wsm, codec>>

\* clearBattleLog after updateGlobalMetaIndex (lines 1910, 1915; 1296-1302): a
\* rejection is only logged.
ClearIdx(p, ok) ==
  /\ tasks[p].pc = "clearIdx"
  /\ fails' = fails + Count(ok)
  /\ indexStore' = IF ok THEN tasks[p].widx ELSE indexStore
  /\ tasks' = [tasks EXCEPT ![p].pc = "load1", ![p].widx = <<>>]
  /\ UNCHANGED <<metaStore, chunkStore, statVars, queueVars, syncVars, cache, globalMetaIndex,
                 memRead, nextId, searchIndex, cap, wsm, codec>>

\* The end of clearBattleLog (lines 1926-1932): finally releases the mutex and
\* the call returns.  The loop of clearAllLogs (lines 1938-1944) then takes the
\* element of globalMetaIndex at its next position; past the end of the array it
\* empties globalMetaIndex and persists it.
ClearEnd(p) ==
  LET b == tasks[p].log
      lk == ReleasedLocked(b)
      ws == ReleasedWaiters(b)
      ts == ReleasedTasks(tasks, b)
      i == tasks[p].iter + 1
  IN IF tasks[p].ret = "all"
     THEN IF i < Len(globalMetaIndex)
          THEN /\ ClearCall(p, globalMetaIndex[i + 1],
                           [ClearTask("all") EXCEPT !.iter = i, !.atStart = tasks[p].atStart], lk, ws, ts)
               /\ UNCHANGED globalMetaIndex
          ELSE /\ locked' = lk
               /\ waiters' = ws
               /\ globalMetaIndex' = <<>>
               /\ tasks' = [ts EXCEPT ![p] = [ClearTask("all") EXCEPT !.pc = "allIdx",
                                                                    !.atStart = tasks[p].atStart]]
     ELSE /\ locked' = lk
          /\ waiters' = ws
          /\ tasks' = [ts EXCEPT ![p] = IdleTask]
          /\ UNCHANGED globalMetaIndex

\* clearBattleLog after the getItem of loadBattleFromStorage (lines 1915-1923;
\* 1560-1576, 1597-1602): without a meta, or on a rejection, nothing is removed.
ClearLoad1(p, ok) ==
  LET b == tasks[p].log
      found == ok /\ metaStore[b] # <<>>
  IN /\ tasks[p].pc = "load1" /\ tasks[p].op = "clear"
     /\ fails' = fails + Count(ok)
     /\ errors' = errors + Count(ok)
     /\ IF found
        THEN /\ tasks' = [tasks EXCEPT ![p].meta = metaStore[b],
                            ![p].pc = IF metaStore[b][1].lastChunkIndex >= 0 THEN "load2" ELSE "clearRemove"]
             /\ UNCHANGED <<locked, waiters, globalMetaIndex>>
        ELSE ClearEnd(p)
     /\ UNCHANGED <<storeVars, flushes, flushErrors, queueVars, flushTimers, messageQueue, emitted, heap, cache,
                    memRead, nextId, searchIndex, cap, wsm, codec>>

\* clearBattleLog after the multiGet of loadBattleFromStorage (lines 1576-1602,
\* 1917-1923): the loaded chunks are indexed for search again.
ClearLoad2(p, ok) ==
  LET b == tasks[p].log
  IN /\ tasks[p].pc = "load2" /\ tasks[p].op = "clear"
     /\ fails' = fails + Count(ok)
     /\ errors' = errors + Count(ok)
     /\ IF ok
        THEN /\ searchIndex' = LoadedIndex(b, tasks[p].meta[1].lastChunkIndex)
             /\ tasks' = [tasks EXCEPT ![p].pc = "clearRemove"]
             /\ UNCHANGED <<locked, waiters, globalMetaIndex>>
        ELSE /\ UNCHANGED searchIndex
             /\ ClearEnd(p)
     /\ UNCHANGED <<storeVars, flushes, flushErrors, queueVars, flushTimers, messageQueue, emitted, heap, cache,
                    memRead, nextId, cap, wsm, codec>>

\* keysToRemove (lines 1918-1921): the chunk records multiRemove leaves.
ChunksLeft(stored, last) == [i \in {j \in DOMAIN stored : j > last} |-> stored[i]]

\* clearBattleLog after multiRemove (lines 1923-1932): a rejection goes to the
\* catch block.
ClearRemove(p, ok) ==
  LET b == tasks[p].log
  IN /\ tasks[p].pc = "clearRemove"
     /\ fails' = fails + Count(ok)
     /\ errors' = errors + Count(ok)
     /\ metaStore' = IF ok THEN [metaStore EXCEPT ![b] = <<>>] ELSE metaStore
     /\ chunkStore' = IF ok THEN [chunkStore EXCEPT ![b] = ChunksLeft(@, tasks[p].meta[1].lastChunkIndex)]
                      ELSE chunkStore
     /\ ClearEnd(p)
     /\ UNCHANGED <<indexStore, flushes, flushErrors, queueVars, flushTimers, messageQueue, emitted, heap, cache,
                    memRead, nextId, searchIndex, cap, wsm, codec>>

\* A client calls clearAllLogs (lines 1935-1944): clearBattleLog is called for
\* the first element of globalMetaIndex; with none the empty index is persisted.
\* History: atStart is the set of battles in globalMetaIndex at the call.
ClearAllLogs ==
  LET me == [ClearTask("all") EXCEPT !.atStart = {globalMetaIndex[i] : i \in 1..Len(globalMetaIndex)}]
  IN /\ CanStart /\ calls.clears < cap.clears
     /\ calls' = [calls EXCEPT !.clears = @ + 1]
     /\ IF globalMetaIndex = <<>>
        THEN /\ tasks' = [tasks EXCEPT ![NewTask] = [me EXCEPT !.pc = "allIdx"]]
             /\ UNCHANGED <<locked, waiters>>
        ELSE ClearCall(NewTask, globalMetaIndex[1], me, locked, waiters, tasks)
     /\ UNCHANGED <<storeVars, statVars, writeQueues, enqueued, flushTimers, messageQueue, emitted, heap, cache,
                    globalMetaIndex, memRead, nextId, fails, searchIndex, cap, wsm, codec>>

\* clearAllLogs after updateGlobalMetaIndex (lines 1944-1952): the cache and the
\* search index are emptied.
AllIdx(p, ok) ==
  /\ tasks[p].pc = "allIdx"
  /\ fails' = fails + Count(ok)
  /\ indexStore' = IF ok THEN <<>> ELSE indexStore
  /\ cache' = <<>>
  /\ searchIndex' = [b \in Logs |-> EmptyIndex]
  /\ tasks' = [tasks EXCEPT ![p] = IdleTask]
  /\ heap' = Collect(heap, cache', tasks')
  /\ UNCHANGED <<metaStore, chunkStore, statVars, queueVars, locked, waiters, flushTimers, messageQueue, emitted,
                 globalMetaIndex, memRead, nextId, cap, wsm, codec>>

\* The continuations of clearBattleLog and clearAllLogs.
ClearStep(p) ==
  \/ ClearTry(p)
  \/ \E ok \in Outcomes :
       \/ ClearIdx(p, ok)
       \/ ClearLoad1(p, ok)
       \/ ClearLoad2(p, ok)
       \/ ClearRemove(p, ok)
       \/ AllIdx(p, ok)

\* ---- SkillWebSocketManager (src/unnamed/part_011) --------------------------
\* Every method and callback of the class runs to its end without an await, so
\* each is an operator from the object's state to its next state.
\* setTimeout(callback, delay) and clearTimeout(handle).
setTimeout(s, kind, key, update, message, delay) ==
  [s EXCEPT !.timeouts = @ \cup {[handle |-> s.nextHandle, kind |-> kind, key |-> key, update |-> update,
                                  message |-> message, due |-> s.now + delay]},
            !.nextHandle = @ + 1]

clearTimeout(s, handle) == [s EXCEPT !.timeouts = {t \in @ : t.handle # handle}]

emit(s, name, id) == [s EXCEPT !.events = Append(@, <<name, id>>)]

\* connect (lines 122-143).
connect(s) ==
  IF s.isConnected \/ s.isConnecting THEN s
  ELSE [s EXCEPT !.isConnecting = TRUE, !.socket = "connecting", !.sockets = @ + 1]

\* scheduleReconnect (lines 222-231).
scheduleReconnect(s) ==
  setTimeout([s EXCEPT !.reconnectAttempts = @ + 1, !.isConnecting = TRUE],
             "reconnect", 0, 0, NoMessage, reconnectInterval)

\* startBatchTimer and stopBatchTimer (lines 279-293).
startBatchTimer(s) ==
  [setTimeout(s, "batch", 0, 0, NoMessage, batchInterval) EXCEPT !.batchTimer = s.nextHandle]

stopBatchTimer(s) ==
  IF s.batchTimer # 0 THEN [clearTimeout(s, s.batchTimer) EXCEPT !.batchTimer = 0] ELSE s

\* handleClose (lines 199-215).
handleClose(s) ==
  LET s1 == stopBatchTimer([s EXCEPT !.isConnected = FALSE, !.isConnecting = FALSE])
  IN IF s1.reconnectAttempts < maxReconnectAttempts THEN scheduleReconnect(s1)
     ELSE emit(s1, "maxReconnectAttemptsReached", 0)

\* addToBatch (lines 249-255).
addToBatch(s, update) ==
  LET s1 == [s EXCEPT !.pendingUpdates = Append(@, update),
                      !.batched = Append(@, [update |-> update, time |-> s.now])]
  IN IF s1.batchTimer = 0 THEN startBatchTimer(s1) ELSE s1

\* A debounceUpdate that leaves the key's pending timeout alone; C29 must tell
\* it from the source's.
debounceUpdateUncleared(s, update, key) ==
  [setTimeout(s, "debounce", key, update, NoMessage, debounceDelay)
     EXCEPT !.debounceTimers[key] = s.nextHandle]

\* debounceUpdate (lines 260-274).
debounceUpdate(s, update, key) ==
  LET s1 == IF s.debounceTimers[key] # 0 THEN clearTimeout(s, s.debounceTimers[key]) ELSE s
  IN [setTimeout(s1, "debounce", key, update, NoMessage, debounceDelay)
        EXCEPT !.debounceTimers[key] = s1.nextHandle]

\* queueMessage (lines 413-425); no caller passes a priority.
queueMessage(s, message) ==
  [s EXCEPT !.messageQueue = Append(@, [message |-> message, retryCount |-> 0, priority |-> "medium"])]

\* sendMessage (lines 377-408); Map.set replaces the entry of the same id.
sendMessage(s, message) ==
  IF ~s.isConnected THEN queueMessage(s, message)
  ELSE LET s1 == [s EXCEPT !.wire = Append(@, message.messageId)]
       IN IF message.requiresAck
          THEN setTimeout([s1 EXCEPT !.pendingAcks = {m \in @ : m.messageId # message.messageId}
                                                      \cup {message}],
                          "ack", 0, 0, message, ackTimeout)
          ELSE s1

\* flushBatch (lines 298-322): generateMessageId is called for the batchId and
\* then for the messageId; enableAckSystem is true.
flushBatch(s) ==
  IF s.pendingUpdates = <<>> THEN s
  ELSE LET s1 == stopBatchTimer([s EXCEPT !.pendingUpdates = <<>>, !.messageIdCounter = @ + 2])
       IN sendMessage(s1, [messageId |-> s1.messageIdCounter, updates |-> s.pendingUpdates,
                           requiresAck |-> TRUE])

\* The order of messageQueue.sort (lines 435-438), which is stable: entry x
\* comes after the entries that do not have a lower priority.
PriorityOrder(priority) == CASE priority = "high" -> 3 [] priority = "medium" -> 2 [] OTHER -> 1

RECURSIVE SortByPriority(_)
SortByPriority(queue) ==
  IF queue = <<>> THEN <<>>
  ELSE LET n == Len(queue)
           sorted == SortByPriority(SubSeq(queue, 1, n - 1))
           x == queue[n]
           k == Cardinality({i \in 1..Len(sorted) :
                               PriorityOrder(sorted[i].priority) < PriorityOrder(x.priority)})
       IN SubSeq(sorted, 1, Len(sorted) - k) \o <<x>> \o SubSeq(sorted, Len(sorted) - k + 1, Len(sorted))

RECURSIVE SendQueued(_, _)
SendQueued(s, messagesToSend) ==
  IF messagesToSend = <<>> THEN s
  ELSE SendQueued(sendMessage(s, Head(messagesToSend).message), Tail(messagesToSend))

\* A processMessageQueue that sends the queue and keeps it; C27 must tell it
\* from the source's.
processMessageQueueKept(s) ==
  IF s.messageQueue = <<>> THEN s
  ELSE SendQueued([s EXCEPT !.messageQueue = SortByPriority(@)], SortByPriority(s.messageQueue))

\* processMessageQueue (lines 429-449).
processMessageQueue(s) ==
  IF s.messageQueue = <<>> THEN s
  ELSE SendQueued([s EXCEPT !.messageQueue = <<>>], SortByPriority(s.messageQueue))

\* handleOpen (lines 155-167).
handleOpen(s) ==
  processMessageQueue(startBatchTimer(emit([s EXCEPT !.isConnected = TRUE, !.isConnecting = FALSE,
                                                     !.reconnectAttempts = 0], "connected", 0)))

\* handleMessageFailure (lines 487-504); enableRetryLogic is true.
handleMessageFailure(s, message) ==
  LET found == {i \in 1..Len(s.messageQueue) : s.messageQueue[i].message.messageId = message.messageId}
      i == CHOOSE x \in found : \A y \in found : x <= y
  IN IF found # {} /\ s.messageQueue[i].retryCount < maxRetryAttempts
     THEN setTimeout([s EXCEPT !.messageQueue[i].retryCount = @ + 1], "retry", 0, 0, message, retryDelay)
     ELSE emit([s EXCEPT !.messagesFailed = @ + 1], "messageFailed", message.messageId)

\* The pendingAcks entry of a messageId, as a set.
PendingAck(s, messageId) == {m \in s.pendingAcks : m.messageId = messageId}

\* A handleAck that keeps the entry of an acknowledged message; C25 must tell
\* it from the source's.
handleAckKept(s, messageId, success) ==
  IF PendingAck(s, messageId) = {} THEN s
  ELSE IF success THEN emit(s, "messageAcknowledged", messageId)
       ELSE handleMessageFailure(emit([s EXCEPT !.pendingAcks = @ \ PendingAck(s, messageId)],
                                      "messageFailed", messageId),
                                 CHOOSE m \in PendingAck(s, messageId) : TRUE)

\* handleAck (lines 454-468).
handleAck(s, messageId, success) ==
  IF PendingAck(s, messageId) = {} THEN s
  ELSE LET s1 == [s EXCEPT !.pendingAcks = @ \ PendingAck(s, messageId)]
       IN IF success THEN emit(s1, "messageAcknowledged", messageId)
          ELSE handleMessageFailure(emit(s1, "messageFailed", messageId),
                                    CHOOSE m \in PendingAck(s, messageId) : TRUE)

\* handleAckTimeout (lines 473-482).
handleAckTimeout(s, messageId) ==
  IF PendingAck(s, messageId) = {} THEN s
  ELSE handleMessageFailure(emit([s EXCEPT !.pendingAcks = @ \ PendingAck(s, messageId)],
                                 "messageTimeout", messageId),
                            CHOOSE m \in PendingAck(s, messageId) : TRUE)

\* The callback of timeout t: flushBatch (line 281), the debounced addToBatch
\* (lines 268-271), the acknowledgment timeout (lines 397-401), the retry (line
\* 498) and the reconnect (lines 226-230).
Callback(s, t) ==
  CASE t.kind = "batch" -> flushBatch(s)
    [] t.kind = "debounce" -> [addToBatch(s, t.update) EXCEPT !.debounceTimers[t.key] = 0]
    [] t.kind = "ack" -> IF PendingAck(s, t.message.messageId) # {}
                         THEN handleAckTimeout(s, t.message.messageId) ELSE s
    [] t.kind = "retry" -> sendMessage(s, t.message)
    [] OTHER -> IF ~s.isConnected THEN connect(s) ELSE s

\* What the event handled last was.
Did(s, kind, id, ok) == [s EXCEPT !.last = [kind |-> kind, id |-> id, ok |-> ok]]

\* A client calls connect().
Connect ==
  /\ ~wsm.isConnected /\ ~wsm.isConnecting
  /\ wsm' = Did(connect(wsm), "connect", 0, TRUE)
  /\ UNCHANGED <<logVars, codec>>

\* The socket opens: onopen.
SocketOpen ==
  /\ wsm.socket = "connecting"
  /\ wsm' = Did(handleOpen([wsm EXCEPT !.socket = "open"]), "open", 0, TRUE)
  /\ UNCHANGED <<logVars, codec>>

\* The socket closes, after it was open or before: onclose.
SocketClose ==
  /\ wsm.socket \in {"connecting", "open"}
  /\ wsm' = Did(handleClose([wsm EXCEPT !.socket = "closed"]), "close", 0, TRUE)
  /\ UNCHANGED <<logVars, codec>>

\* sendSkillUpdate(update, debounceKey) (lines 238-244); key 0 is a call
\* without debounceKey.
SendSkillUpdate(key) ==
  LET update == wsm.updates + 1
      s == [wsm EXCEPT !.updates = update,
                       !.submitted = Append(@, [update |-> update, key |-> key, time |-> wsm.now])]
  IN /\ wsm.updates < wsm.lim.updates
     /\ wsm' = Did(IF key # 0 THEN debounceUpdate(s, update, key) ELSE addToBatch(s, update),
                   "update", update, TRUE)
     /\ UNCHANGED <<logVars, codec>>

\* sendFullSync (lines 356-371).
SendFullSync ==
  LET s == [wsm EXCEPT !.syncs = @ + 1, !.messageIdCounter = @ + 1]
  IN /\ wsm.syncs < wsm.lim.syncs
     /\ wsm' = Did(sendMessage(s, [messageId |-> s.messageIdCounter, updates |-> <<>>,
                                   requiresAck |-> TRUE]),
                   "sync", s.messageIdCounter, TRUE)
     /\ UNCHANGED <<logVars, codec>>

\* The server's ack message arrives (handleMessage, lines 169-177): for a
\* message that was sent, or for an id no message has.
ServerAck(messageId, success) ==
  /\ wsm.socket = "open"
  /\ messageId <= wsm.messageIdCounter + 1
  /\ wsm' = Did(handleAck(wsm, messageId, success), "ack", messageId, success)
  /\ UNCHANGED <<logVars, codec>>

\* A timeout that is due fires.
Timeout(t) ==
  /\ t \in wsm.timeouts
  /\ t.due <= wsm.now
  /\ wsm' = Did(Callback([wsm EXCEPT !.timeouts = @ \ {t}], t), "timeout", t.handle, TRUE)
  /\ UNCHANGED <<logVars, codec>>

\* Time passes once the timeouts that are due have fired.
Tick ==
  /\ wsm.now < wsm.lim.time
  /\ \A t \in wsm.timeouts : t.due > wsm.now
  /\ wsm' = Did([wsm EXCEPT !.now = @ + 1], "tick", 0, TRUE)
  /\ UNCHANGED <<logVars, codec>>

\* The ids a message of a run may have, and one more.
MessageIds == 1..(2 * MaxUpdates + MaxSyncs + 1)

\* Sync requests over a connection that may close, with the server's
\* acknowledgments.
AckCalls ==
  \/ Connect
  \/ SocketOpen
  \/ SocketClose
  \/ SendFullSync
  \/ \E messageId \in MessageIds, success \in BOOLEAN : ServerAck(messageId, success)
  \/ \E t \in wsm.timeouts : Timeout(t)
  \/ Tick

\* Updates, batched and debounced, over a connection that stays open.
BatchCalls ==
  \/ Connect
  \/ SocketOpen
  \/ \E key \in 0..NumKeys : SendSkillUpdate(key)
  \/ \E t \in wsm.timeouts : Timeout(t)
  \/ Tick

WsCalls ==
  \/ AckCalls
  \/ \E key \in 0..NumKeys : SendSkillUpdate(key)

\* ---- chunk texts (CompressionUtils, saveBattleChunks, loadBattleFromStorage) --
\* data.length, in messages.
Size(text) == Len(text.chunk.messages)

\* CompressionUtils.compress (lines 1215-1227): without the library, or when
\* the compressed text is not shorter (shorter is the outcome of the length
\* comparison of line 1222), the data is returned as it is.
compress(lib, data, shorter) ==
  IF ~lib.present THEN data
  ELSE IF shorter THEN [data EXCEPT !.form = "lz"] ELSE data

\* LZString.decompressFromUTF16: the inverse of compressToUTF16 on its results;
\* on any other text the library's outcome (lib.onPlain).
decompressFromUTF16(lib, data) ==
  IF data.form = "lz" THEN [throws |-> FALSE, text |-> [data EXCEPT !.form = "json"]]
  ELSE IF lib.onPlain = "throws" THEN [throws |-> TRUE, text |-> data]
  ELSE [throws |-> FALSE, text |-> Junk]

\* CompressionUtils.decompress (lines 1229-1240).
decompress(lib, data) ==
  IF ~lib.present THEN data
  ELSE IF decompressFromUTF16(lib, data).throws THEN data
  ELSE decompressFromUTF16(lib, data).text

\* CompressionUtils.isCompressed (lines 1242-1251): true when the library is
\* there and decompressFromUTF16 does not throw.
isCompressed(lib, data) == lib.present /\ ~decompressFromUTF16(lib, data).throws

\* loadBattleFromStorage, lines 1581-1588: the text JSON.parse is given.
Decoded(lib, value) == IF isCompressed(lib, value) THEN decompress(lib, value) ELSE value

\* JSON.parse throws on a text that is not JSON; so does
\* rebuildSearchIndexFromChunks on what is not a chunk.
ParseThrows(text) == text.form # "json"

\* loadBattleFromStorage, lines 1576-1602, on the chunk records of store: a
\* throw while a chunk is decoded leaves the loop and the function for the
\* catch block, which returns null.
loadBattleFromStorage(lib, store) ==
  IF \E i \in DOMAIN store : ParseThrows(Decoded(lib, store[i]))
  THEN [null |-> TRUE, chunks |-> EmptyChunks]
  ELSE [null |-> FALSE, chunks |-> [i \in DOMAIN store |-> Decoded(lib, store[i]).chunk]]

\* flushBattle, lines 1456-1480: the new chunk; compressed is set when
\* compression is enabled and the JSON text is longer than compressThreshold.
newChunk(enableCompression, messages) ==
  Chunk(messages, enableCompression /\ Size(Stringify(Chunk(messages, FALSE))) > compressThreshold)

\* saveBattleChunks, lines 1526-1535: the text written for a chunk.
chunkData(lib, chunk, shorter) ==
  IF chunk.compressed THEN compress(lib, Stringify(chunk), shorter) ELSE Stringify(chunk)

\* flushBattle creates the next chunk from messages and saveBattleChunks writes
\* it (lines 1456-1492, 1522-1537); shorter is the outcome of line 1222 when
\* compress gets that far.
StoreChunk(messages, shorter) ==
  LET idx == Cardinality(DOMAIN codec.store)
      chunk == newChunk(codec.enableCompression, messages)
      text == chunkData(codec.lib, chunk, shorter)
      put(f, v) == [i \in (DOMAIN f) \cup {idx} |-> IF i = idx THEN v ELSE f[i]]
  IN /\ idx < codec.lim.chunks
     /\ shorter => (chunk.compressed /\ codec.lib.present)
     /\ codec' = [codec EXCEPT !.store = put(@, text), !.flushed = put(@, messages),
                               !.shrank = IF shorter THEN @ \cup {idx} ELSE @,
                               !.loaded = <<>>]
     /\ UNCHANGED <<logVars, wsm>>

\* The text of chunk record i is replaced outside the program by one that is
\* not the JSON text of a chunk, compressed or not.
DamageChunk(i) ==
  /\ i \in DOMAIN codec.store
  /\ Cardinality(codec.damaged) < codec.lim.damaged
  /\ codec.store[i] # Junk
  /\ codec' = [codec EXCEPT !.store[i] = Junk, !.damaged = @ \cup {i}, !.loaded = <<>>]
  /\ UNCHANGED <<logVars, wsm>>

\* loadBattleFromStorage reads the chunk records (lines 1576-1602).
LoadStored ==
  LET result == loadBattleFromStorage(codec.lib, codec.store)
  IN /\ codec.store # EmptyChunks
     /\ codec.loaded = <<>>
     /\ codec' = [codec EXCEPT !.loaded = <<result>>,
                               !.errors = IF result.null THEN @ + 1 ELSE @]
     /\ UNCHANGED <<logVars, wsm>>

\* The chunks a run stores: one to three messages over TextMsgs.
ChunkMessages ==
  {<<a>> : a \in TextMsgs} \cup {<<a, b>> : a, b \in TextMsgs} \cup {<<1, 2, 1>>}

TextCalls ==
  \/ \E messages \in ChunkMessages, shorter \in BOOLEAN : StoreChunk(messages, shorter)
  \/ \E i \in 0..(MaxStored - 1) : DamageChunk(i)
  \/ LoadStored

\* ---- specification -------------------------------------------------------
\* The continuations of enqueueMessage and flushBattle.
WriteStep(p) ==
  \E ok \in Outcomes :
    \/ EnsureGet(p, ok)
    \/ EnsureSet(p, ok)
    \/ EnsureIdx(p, ok)
    \/ UnreadGet(p, ok)
    \/ UnreadSet(p, ok)
    \/ FlushLoad1(p, ok)
    \/ FlushSaveChunk(p, ok)
    \/ FlushSaveMeta(p, ok)
    \/ FlushPruneChunks(p, ok)
    \/ FlushPruneMeta(p, ok)

\* The calls a client makes to write a battle's log, and the timer.
WriteCalls ==
  \/ \E b \in Logs : EnqueueMessage(b)
  \/ \E b \in Logs : TimerFire(b)
  \/ \E b \in Logs : StartFlush(b)
  \/ \E p \in TaskIds : FlushTry(p)
  \/ \E p \in TaskIds : WriteStep(p)

\* Every operation, on several battles.
Next ==
  \/ WriteCalls
  \/ \E p \in TaskIds, ok \in Outcomes : FlushLoad2(p, ok)
  \/ \E b \in Logs : GetRecentMessages(b)
  \/ \E p \in TaskIds, ok \in Outcomes : GetLoad1(p, ok)
  \/ \E p \in TaskIds, ok \in Outcomes : GetLoad2(p, ok)
  \/ \E b \in Logs, m \in MsgIds : MarkMessagesAsRead(b, m)
  \/ \E b \in Logs : MarkAllAsRead(b)
  \/ \E p \in TaskIds, ok \in Outcomes : MarkSave(p, ok)
  \/ \E b \in Logs : ClearBattleLog(b)
  \/ ClearAllLogs
  \/ \E p \in TaskIds : ClearStep(p)
  \/ WsCalls
  \/ TextCalls

Spec == Init /\ [][Next]_vars

\* One battle written by concurrent calls, no AsyncStorage rejection.
InitFlush ==
  /\ InitState
  /\ wsm = NewManager(NoLimits)
  /\ codec = NewCodec(NoLibrary, FALSE, NoStoring)
  /\ cap = [msgs |-> MaxMsgs, tasks |-> MaxTasks - 1, fails |-> 0, logs |-> 1, gets |-> 0, marks |-> 0, clears |-> 0, cacheSize |-> cacheSize]

SpecFlush == InitFlush /\ [][WriteCalls]_vars

\* One battle written by concurrent calls, with AsyncStorage rejections.
InitFail ==
  /\ InitState
  /\ wsm = NewManager(NoLimits)
  /\ codec = NewCodec(NoLibrary, FALSE, NoStoring)
  /\ cap = [msgs |-> MidMsgs, tasks |-> MaxTasks - 1, fails |-> MaxFails, logs |-> 1, gets |-> 0, marks |-> 0, clears |-> 0, cacheSize |-> cacheSize]

SpecFail == InitFail /\ [][WriteCalls]_vars

\* One battle written by one call at a time (each call awaited before the
\* next is made), with AsyncStorage rejections.
InitSeq ==
  /\ InitState
  /\ wsm = NewManager(NoLimits)
  /\ codec = NewCodec(NoLibrary, FALSE, NoStoring)
  /\ cap = [msgs |-> MaxMsgs, tasks |-> 1, fails |-> MaxFails, logs |-> 1, gets |-> 0, marks |-> 0, clears |-> 0, cacheSize |-> cacheSize]

SpecSeq == InitSeq /\ [][WriteCalls]_vars

\* One battle written and read by concurrent calls, from a fresh start or after
\* a restart, no AsyncStorage rejection: two calls in flight with MidMsgs
\* messages, or three with FewMsgs.
InitRead ==
  /\ InitState \/ Restarted
  /\ wsm = NewManager(NoLimits)
  /\ codec = NewCodec(NoLibrary, FALSE, NoStoring)
  /\ cap \in {[msgs |-> MidMsgs, tasks |-> MaxTasks - 1, fails |-> 0, logs |-> 1, gets |-> MaxGets, marks |-> 0, clears |-> 0, cacheSize |-> cacheSize],
              [msgs |-> FewMsgs, tasks |-> MaxTasks, fails |-> 0, logs |-> 1, gets |-> MaxGets, marks |-> 0, clears |-> 0, cacheSize |-> cacheSize]}

ReadCalls ==
  \/ WriteCalls
  \/ \E p \in TaskIds, ok \in Outcomes : FlushLoad2(p, ok)
  \/ \E b \in Logs : GetRecentMessages(b)
  \/ \E p \in TaskIds, ok \in Outcomes : GetLoad1(p, ok)
  \/ \E p \in TaskIds, ok \in Outcomes : GetLoad2(p, ok)

SpecRead == InitRead /\ [][ReadCalls]_vars

\* Several battles written by concurrent calls, no AsyncStorage rejection: the
\* one-entry cache evicts a battle whenever another one is flushed, so a later
\* flush reloads its battle from storage.
InitLogs ==
  /\ InitState
  /\ wsm = NewManager(NoLimits)
  /\ codec = NewCodec(NoLibrary, FALSE, NoStoring)
  /\ cap = [msgs |-> MidMsgs, tasks |-> MaxTasks - 1, fails |-> 0, logs |-> NumLogs, gets |-> 0, marks |-> 0, clears |-> 0, cacheSize |-> cacheSize]

LogsCalls ==
  \/ WriteCalls
  \/ \E p \in TaskIds, ok \in Outcomes : FlushLoad2(p, ok)

SpecLogs == InitLogs /\ [][LogsCalls]_vars

\* Several battles written by concurrent calls and read, no AsyncStorage
\* rejection, with a cache that has room for every battle.
InitCache ==
  /\ InitState
  /\ wsm = NewManager(NoLimits)
  /\ codec = NewCodec(NoLibrary, FALSE, NoStoring)
  /\ cap = [msgs |-> FewMsgs, tasks |-> MaxTasks - 1, fails |-> 0, logs |-> NumLogs, gets |-> MaxGets,
            marks |-> 0, clears |-> 0, cacheSize |-> wideCache]

SpecCache == InitCache /\ [][ReadCalls]_vars

\* Several battles written and cleared, from a fresh start or after a restart,
\* no AsyncStorage rejection.
InitClear ==
  /\ InitState \/ Restarted
  /\ wsm = NewManager(NoLimits)
  /\ codec = NewCodec(NoLibrary, FALSE, NoStoring)
  /\ cap = [msgs |-> FewMsgs, tasks |-> MaxTasks - 1, fails |-> 0, logs |-> NumLogs, gets |-> 0,
            marks |-> 0, clears |-> MaxClears, cacheSize |-> cacheSize]

ClearCalls ==
  \/ LogsCalls
  \/ \E b \in Logs : ClearBattleLog(b)
  \/ ClearAllLogs
  \/ \E p \in TaskIds : ClearStep(p)

SpecClear == InitClear /\ [][ClearCalls]_vars

\* Several battles written and cleared by one call at a time (each call awaited
\* before the next is made, the timer callback included), no rejection.
InitClearSeq ==
  /\ InitState \/ Restarted
  /\ wsm = NewManager(NoLimits)
  /\ codec = NewCodec(NoLibrary, FALSE, NoStoring)
  /\ cap = [msgs |-> MidMsgs, tasks |-> 1, fails |-> 0, logs |-> NumLogs, gets |-> 0,
            marks |-> 0, clears |-> MaxClears, cacheSize |-> cacheSize]

SpecClearSeq == InitClearSeq /\ [][ClearCalls]_vars

\* One battle written and marked as read by one call at a time (each call
\* awaited before the next is made, the timer callback included), no rejection.
InitMarkSeq ==
  /\ InitState
  /\ wsm = NewManager(NoLimits)
  /\ codec = NewCodec(NoLibrary, FALSE, NoStoring)
  /\ cap = [msgs |-> MidMsgs, tasks |-> 1, fails |-> 0, logs |-> 1, gets |-> 0,
            marks |-> MaxMarksSeq, clears |-> 0, cacheSize |-> cacheSize]

MarkCalls ==
  \/ WriteCalls
  \/ \E b \in Logs, m \in MsgIds : MarkMessagesAsRead(b, m)
  \/ \E b \in Logs : MarkAllAsRead(b)
  \/ \E p \in TaskIds, ok \in Outcomes : MarkSave(p, ok)

SpecMarkSeq == InitMarkSeq /\ [][MarkCalls]_vars

\* One battle written and marked as read by concurrent calls, no rejection.
InitMark ==
  /\ InitState
  /\ wsm = NewManager(NoLimits)
  /\ codec = NewCodec(NoLibrary, FALSE, NoStoring)
  /\ cap = [msgs |-> FewMsgs, tasks |-> MaxTasks - 1, fails |-> 0, logs |-> 1, gets |-> 0,
            marks |-> MaxMarksSeq, clears |-> 0, cacheSize |-> cacheSize]

SpecMark == InitMark /\ [][MarkCalls]_vars

\* The SkillWebSocketManager while it sends sync requests, with the server's
\* acknowledgments and a connection that may close.
InitAck ==
  /\ InitState
  /\ cap = [msgs |-> 0, tasks |-> 0, fails |-> 0, logs |-> 0, gets |-> 0, marks |-> 0, clears |-> 0, cacheSize |-> cacheSize]
  /\ wsm = NewManager([updates |-> 0, syncs |-> MaxSyncs, time |-> MaxTime])
  /\ codec = NewCodec(NoLibrary, FALSE, NoStoring)

SpecAck == InitAck /\ [][AckCalls]_vars

\* The SkillWebSocketManager while it batches and debounces updates, with a
\* connection that opens and stays open and no acknowledgment from the server.
InitBatch ==
  /\ InitState
  /\ cap = [msgs |-> 0, tasks |-> 0, fails |-> 0, logs |-> 0, gets |-> 0, marks |-> 0, clears |-> 0, cacheSize |-> cacheSize]
  /\ wsm = NewManager([updates |-> MaxUpdates, syncs |-> 0, time |-> MaxTime])
  /\ codec = NewCodec(NoLibrary, FALSE, NoStoring)

SpecBatch == InitBatch /\ [][BatchCalls]_vars

\* The texts of a battle's chunks, written and read back, in every build: with
\* and without lz-string, with compression enabled or not.
InitText ==
  /\ InitState
  /\ cap = [msgs |-> 0, tasks |-> 0, fails |-> 0, logs |-> 0, gets |-> 0, marks |-> 0, clears |-> 0, cacheSize |-> cacheSize]
  /\ wsm = NewManager(NoLimits)
  /\ \E present, enableCompression \in BOOLEAN, onPlain \in {"throws", "junk"} :
       codec = NewCodec([present |-> present, onPlain |-> IF present THEN onPlain ELSE "throws"],
                        enableCompression, [chunks |-> MaxStored, damaged |-> MaxDamaged])

SpecText == InitText /\ [][TextCalls]_vars

\* ---- observations --------------------------------------------------------
\* No call on battle b is in flight.
Quiescent(b) == \A p \in TaskIds : tasks[p].op = "idle" \/ tasks[p].log # b

\* What loadBattleFromStorage returns for a battle with a persisted meta.
LoadedBattle(b) ==
  [meta |-> metaStore[b][1], chunks |-> LoadChunks(chunkStore[b], metaStore[b][1].lastChunkIndex)]

\* What getRecentMessages(b, limit) returns when called in this state with no
\* other call on b in flight (lines 1744-1764): the ids of the messages.
RecentMessages(b, limit) ==
  IF CacheHas(cache, b) THEN Ids(getMessagesFromBattleData(heap[CacheRef(cache, b)][1], limit))
  ELSE IF metaStore[b] = <<>> THEN <<>>
  ELSE Ids(getMessagesFromBattleData(LoadedBattle(b), limit))

\* The highest chunk index persisted for a battle, -1 without any.
HighestPersisted(b) == IF DOMAIN chunkStore[b] = {} THEN -1 ELSE Max(DOMAIN chunkStore[b])

BufferEmpty(b) == writeQueues[b].msgs = <<>>

\* The lastChunkIndex of the persisted meta, -1 without a meta.
PersistedLast(b) == IF metaStore[b] = <<>> THEN -1 ELSE metaStore[b][1].lastChunkIndex

IsPrefix(s, t) == Len(s) <= Len(t) /\ SubSeq(t, 1, Len(s)) = s

\* ---- searchMessages ------------------------------------------------------
\* searchMessages reads the search index, globalMetaIndex and the cache and
\* writes nothing but the recency of the cache entry it reads (LRUCache.get),
\* so its result is a function of the state.
\* searchInBattleIndex (lines 1705-1740) for battle b: the scored positions are
\* looked up in the battle's cache entry and the first limit results returned.
searchInBattleIndex(b, queryTokens, limit) ==
  LET scores == messageScores(searchIndex[b], queryTokens, <<>>)
      chs == IF CacheHas(cache, b) THEN heap[CacheRef(cache, b)][1].chunks ELSE EmptyChunks
  IN Slice(ScoredResults(scores, chs, b, Len(queryTokens)), limit)

\* The comparison of results.sort (lines 1695-1700): a comes before c.
Precedes(a, c) ==
  \/ a.score > c.score
  \/ a.score = c.score /\ Timestamp(a.message) > Timestamp(c.message)

\* Array.prototype.sort, which is stable.
RECURSIVE SortResults(_)
SortResults(results) ==
  IF results = <<>> THEN <<>>
  ELSE LET n == Len(results)
           sorted == SortResults(SubSeq(results, 1, n - 1))
           x == results[n]
           k == Cardinality({i \in 1..Len(sorted) : Precedes(x, sorted[i])})
       IN SubSeq(sorted, 1, Len(sorted) - k) \o <<x>> \o SubSeq(sorted, Len(sorted) - k + 1, Len(sorted))

\* The loop over globalMetaIndex (lines 1677-1691).
RECURSIVE SearchBattles(_, _, _)
SearchBattles(index, queryTokens, limit) ==
  IF index = <<>> THEN <<>>
  ELSE searchInBattleIndex(Head(index), queryTokens, limit) \o SearchBattles(Tail(index), queryTokens, limit)

\* searchMessages(query, {battleId, limit}) (lines 1664-1703); battleId 0 stands
\* for a call without battleId.
searchMessages(query, battleId, limit) ==
  LET queryTokens == Tokenize(query)
      results == IF battleId # 0 THEN searchInBattleIndex(battleId, queryTokens, limit)
                 ELSE SearchBattles(globalMetaIndex, queryTokens, limit)
  IN Slice(SortResults(results), limit)

\* The queries a client makes, lower-cased and split at white space.
Queries == {<<"fireball">>, <<"wind">>, <<"fireball", "wind">>, <<"fireball", "fireball">>,
            <<"hp", "rimuru">>}

\* A limit that cuts nothing off.
NoLimit == 2 * MaxMsgs * NumLogs

\* The tokens the text of message m contains.
TokensOf(m) == {Tokenize(Text(m))[i] : i \in 1..Len(Tokenize(Text(m)))}

\* getUnreadCount (lines 1794-1809) with no other call in flight.
getUnreadCount(b) == IF metaStore[b] = <<>> THEN 0 ELSE metaStore[b][1].unreadCount

\* ---- claims --------------------------------------------------------------
\* C1 (round-trip fidelity): on one battle, with no AsyncStorage rejection and
\* no more than maxChunksPerBattle chunks, once a flush has completed, no call
\* is in flight and the write buffer is empty, getRecentMessages with a limit of
\* at least the number of messages enqueued returns exactly the enqueued
\* messages, each once, in the order they were enqueued.
C1_RoundTrip ==
  \A b \in Logs :
    (/\ Quiescent(b) /\ fails = 0 /\ flushes > 0
     /\ enqueued[b] # <<>> /\ BufferEmpty(b)
     /\ Cardinality(DOMAIN chunkStore[b]) <= maxChunksPerBattle)
    => \A limit \in Len(enqueued[b])..(Len(enqueued[b]) + 1) :
         RecentMessages(b, limit) = enqueued[b]

\* C2 (concurrent flushes never share a chunk index): a flushBattle that was
\* called while another flushBattle of the same battle was in flight writes its
\* chunk at an index at which no chunk has been written before.
C2_FreshIndex ==
  [][\A p \in TaskIds :
       (tasks[p].waited /\ tasks[p].pc = "saveChunk" /\ tasks'[p].pc = "saveMeta")
       => (DOMAIN tasks[p].chunks) \cap (DOMAIN chunkStore[tasks[p].log]) = {}]_vars

\* The positions at which a call has read or written the battle's persisted
\* records or its cache entry and has a write of them still to make.
SectionPcs == {"ensureSet", "unreadSet", "load1", "load2", "saveChunk", "saveMeta",
               "pruneChunks", "pruneMeta", "markSave"}

\* C3 (per-battle lock discipline): at no time are two calls on the same battle
\* both between their first and their last access to the battle's cache entry
\* and persisted records.
C3_OneAtATime ==
  \A p, q \in TaskIds :
    (p # q /\ tasks[p].log = tasks[q].log)
    => ~(tasks[p].pc \in SectionPcs /\ tasks[q].pc \in SectionPcs)

\* C4 (lastChunkIndex is the highest persisted index): whenever no call on a
\* battle is in flight, the lastChunkIndex of its persisted meta is the highest
\* index at which a chunk of the battle is persisted, -1 when there is none.
C4_LastChunkIndex ==
  \A b \in Logs : Quiescent(b) => PersistedLast(b) = HighestPersisted(b)

C6_RetryOnce ==
  \A b \in Logs :
    (Quiescent(b) /\ flushErrors[b] > 0 /\ BufferEmpty(b) /\ metaStore[b] # <<>>)
    => /\ DOMAIN chunkStore[b] = 0..HighestPersisted(b)
       /\ metaStore[b][1].totalMessages = Len(enqueued[b])

\* C7 (chunk immutability): a persisted chunk record stays persisted (nothing
\* modelled clears a battle) and the sequence of message ids stored under its
\* key never changes.
C7_Immutable ==
  [][\A b \in Logs : \A i \in DOMAIN chunkStore[b] :
       i \in DOMAIN chunkStore'[b] /\ Ids(chunkStore'[b][i]) = Ids(chunkStore[b][i])]_vars

\* C8 (per-battle retention): with no call on a battle in flight, a load of the
\* battle from AsyncStorage returns no chunk that is absent from the battle's
\* cache entry: the chunks pruned from the cache are gone from the store too.
C8_PrunedFromStore ==
  \A b \in Logs :
    (Quiescent(b) /\ CacheHas(cache, b) /\ metaStore[b] # <<>>)
    => DOMAIN LoadedBattle(b).chunks \subseteq DOMAIN heap[CacheRef(cache, b)][1].chunks

C10_GlobalCap ==
  (\A p \in TaskIds : tasks[p].op = "idle") => Len(globalMetaIndex) <= maxBattlesStored

\* C11 (clearBattleLog removes everything): when a clearBattleLog(L) a client
\* called returns, no AsyncStorage operation was rejected and no other call on L
\* (nor a clearAllLogs) is in flight, nothing of L is left: no persisted meta, no
\* persisted chunk, no cache entry, no write buffer, no armed timer, no
\* search-index entry, no membership in globalMetaIndex.
C11_ClearRemovesAll ==
  [][\A p \in TaskIds :
       (/\ tasks[p].op = "clear" /\ tasks[p].ret = "none" /\ tasks'[p].op = "idle"
        /\ fails' = 0
        /\ \A q \in TaskIds \ {p} :
              tasks'[q].op = "idle" \/ (tasks'[q].log # tasks[p].log /\ tasks'[q].ret # "all"))
       => LET b == tasks[p].log
          IN /\ metaStore'[b] = <<>>
             /\ chunkStore'[b] = EmptyChunks
             /\ ~CacheHas(cache', b)
             /\ ~writeQueues'[b].has
             /\ flushTimers'[b] # "armed"
             /\ searchIndex'[b] = EmptyIndex
             /\ \A i \in 1..Len(globalMetaIndex') : globalMetaIndex'[i] # b]_vars

\* C12 (clearAllLogs removes every battle): when clearAllLogs returns, called
\* with no other call in flight and no rejection, every battle that was in
\* globalMetaIndex at the call has no persisted meta, no persisted chunk, no
\* write buffer and no armed timer, and globalMetaIndex is empty.
C12_ClearAllRemovesAll ==
  [][\A p \in TaskIds :
       (tasks[p].pc = "allIdx" /\ tasks'[p].op = "idle" /\ fails' = 0)
       => /\ globalMetaIndex' = <<>>
          /\ \A b \in tasks[p].atStart :
                /\ metaStore'[b] = <<>>
                /\ chunkStore'[b] = EmptyChunks
                /\ ~writeQueues'[b].has
                /\ flushTimers'[b] # "armed"]_vars

\* The battles with a persisted meta record, and the battles of globalMetaIndex.
MetaLogs == {b \in Logs : metaStore[b] # <<>>}

IndexLogs == {globalMetaIndex[i] : i \in 1..Len(globalMetaIndex)}

\* C13 (the global index enumerates the persisted metas): with no call in
\* flight, globalMetaIndex holds exactly the battles that have a persisted meta.
C13_IndexIsMetas ==
  (\A p \in TaskIds : tasks[p].op = "idle") => IndexLogs = MetaLogs

\* C14 (flush scheduling): when enqueueMessage returns and its push had brought
\* the buffer to flushThreshold messages or more, it has run flushBattle and no
\* flush timer is armed for the battle; when its push left the buffer below
\* flushThreshold and the buffer is still below it at the check of line 1332, a
\* flush timer is armed for the battle.
C14_FlushScheduling ==
  [][\A p \in TaskIds :
       (tasks[p].op = "enq" /\ tasks'[p].op = "idle")
       => LET b == tasks[p].log
          IN IF tasks[p].reached
             THEN tasks[p].ret = "enq" /\ flushTimers'[b] # "armed"
             ELSE (tasks[p].ret = "none" /\ Len(writeQueues[b].msgs) < flushThreshold)
                  => flushTimers'[b] = "armed"]_vars

\* C15 (flushing an empty buffer is a no-op): the flushBattle a timer calls on
\* a battle whose buffer is empty or absent changes nothing but the timer that
\* fired: no persisted record, no cache entry, no search-index entry, no counter,
\* no event, no mutex and no call in flight; a flushBattle that goes on to the
\* mutex has captured a buffer with messages, and no persisted chunk is empty.
C15_EmptyFlushNoOp ==
  /\ [][\A b \in Logs :
          (flushTimers[b] = "armed" /\ flushTimers'[b] = "stale" /\ BufferEmpty(b))
          => UNCHANGED <<metaStore, chunkStore, indexStore, cache, heap, searchIndex, writeQueues,
                         errors, flushes, flushErrors, messageQueue, locked, waiters, tasks>>]_vars
  /\ [](\A p \in TaskIds : tasks[p].pc \in {"flushWait", "flushTry"} => CapturedQueue(p) # <<>>)
  /\ [](\A b \in Logs : \A i \in DOMAIN chunkStore[b] : chunkStore[b][i] # <<>>)

\* A timer has fired on a battle whose buffer was empty: its handle is still in
\* flushTimers, no call is in flight, the mutex is free and the buffer is empty.
C15_Witness ==
  \E b \in Logs :
    /\ flushTimers[b] = "stale" /\ BufferEmpty(b) /\ ~locked[b]
    /\ \A p \in TaskIds : tasks[p].op = "idle"

\* C16 (chunk boundary): with no rejection, no call in flight and an empty
\* buffer, a battle on which exactly chunkSize messages were enqueued has one
\* persisted chunk, holding chunkSize messages; one on which chunkSize + 1 were
\* enqueued has two chunks once two flushes are done; and no persisted chunk
\* ever holds more than chunkSize messages.
C16_ChunkBoundary ==
  \A b \in Logs :
    /\ (Quiescent(b) /\ fails = 0 /\ BufferEmpty(b) /\ Len(enqueued[b]) = chunkSize)
       => /\ DOMAIN chunkStore[b] = {0}
          /\ Len(chunkStore[b][0]) = chunkSize
    /\ (Quiescent(b) /\ fails = 0 /\ BufferEmpty(b) /\ Len(enqueued[b]) = chunkSize + 1 /\ flushes = 2)
       => Cardinality(DOMAIN chunkStore[b]) = 2
    /\ \A i \in DOMAIN chunkStore[b] : Len(chunkStore[b][i]) <= chunkSize

\* C17 (a flushed message is found): with no call on a battle in flight and no
\* chunk of it pruned, every message of a persisted chunk up to the persisted
\* lastChunkIndex is among the results of searchMessages(t, {battleId}) for
\* every token t of at least 3 characters its text contains.
C17_SearchFindsFlushed ==
  \A b \in Logs :
    (Quiescent(b) /\ Cardinality(DOMAIN chunkStore[b]) <= maxChunksPerBattle)
    => \A i \in DOMAIN chunkStore[b] : \A j \in 1..Len(chunkStore[b][i]) :
         i <= PersistedLast(b)
         => \A t \in TokensOf(chunkStore[b][i][j].id) :
              LET results == searchMessages(<<t>>, b, NoLimit)
              IN \E k \in 1..Len(results) : results[k].message = chunkStore[b][i][j].id

\* C18 (relevance is a fraction): for every result of searchMessages, the
\* relevanceScore score / den is the number of the query's tokens the message
\* contains over the number of the query's tokens, so 0 < score <= den.
C18_RelevanceIsFraction ==
  \A b \in Logs : \A query \in Queries :
    LET results == searchMessages(query, b, NoLimit)
        queryTokens == Tokenize(query)
    IN \A k \in 1..Len(results) :
         /\ results[k].den = Len(queryTokens)
         /\ results[k].score =
              Cardinality({n \in 1..Len(queryTokens) : queryTokens[n] \in TokensOf(results[k].message)})
         /\ 0 < results[k].score /\ results[k].score <= results[k].den

\* The place of a result.
Place(r) == <<r.battleId, r.chunkIndex, r.messageIndex>>

\* C19 (the best results, in order): searchMessages with a limit returns at most
\* limit results, none of them comes before an earlier one in the order by
\* relevanceScore descending, then timestamp descending, and no result that the
\* same search without a limit returns and this one omits comes before a result
\* it returns.
C19_SearchRanking ==
  \A b \in {0} \cup Logs : \A query \in Queries : \A limit \in 1..FewMsgs :
    LET results == searchMessages(query, b, limit)
        all == searchMessages(query, b, NoLimit)
    IN /\ Len(results) <= limit
       /\ \A k, n \in 1..Len(results) : k < n => ~Precedes(results[n], results[k])
       /\ \A n \in 1..Len(all) :
            (\A k \in 1..Len(results) : Place(results[k]) # Place(all[n]))
            => \A k \in 1..Len(results) : ~Precedes(all[n], results[k])

\* C20 (unread count): with no rejection, no markMessagesAsRead and no call on
\* the battle in flight, getUnreadCount returns the number of messages enqueued
\* on the battle.
C20_UnreadCount ==
  \A b \in Logs : (Quiescent(b) /\ fails = 0) => getUnreadCount(b) = Len(enqueued[b])

\* C21 (mark all as read): with one call at a time and no rejection, on a battle
\* on which markMessagesAsRead without ids has returned and enqueueMessage was
\* not called since, getUnreadCount returns 0, also while and after the
\* messages buffered before are flushed.
C21_MarkAllZeroes ==
  \A b \in Logs : b \in calls.zeroed => getUnreadCount(b) = 0

\* The positions of the messages of chs whose id is in ids and that are unread.
UnreadIn(chs, ids, mr) ==
  {x \in (DOMAIN chs) \X (1..(2 * MaxMsgs)) :
     x[2] <= Len(chs[x[1]]) /\ chs[x[1]][x[2]].id \in ids /\ ~EntryRead(chs[x[1]][x[2]], mr)}

\* C22 (mark ids as read): with one call at a time and no rejection, the call
\* markMessagesAsRead(b, ids) sets isRead on the cached messages whose id is in
\* ids and on no other, its unread-count update lowers the persisted count by
\* the number of those that were unread, its last step leaves every cached
\* chunk persisted as it is in the cache, and after it no cached message with
\* an id in ids is unread, so that a second call finds nothing to change.
C22_MarkIds ==
  [][\A p \in TaskIds :
       /\ (tasks[p].op = "idle" /\ tasks'[p].op = "mark" /\ tasks'[p].hasIds)
          => LET b == tasks'[p].log
                 ids == tasks'[p].ids
                 old == heap[tasks'[p].bd][1].chunks
                 new == heap'[tasks'[p].bd][1].chunks
             IN /\ tasks'[p].delta = 0 - Cardinality(UnreadIn(old, ids, memRead))
                /\ DOMAIN new = DOMAIN old
                /\ \A i \in DOMAIN old :
                     /\ Len(new[i]) = Len(old[i])
                     /\ \A j \in 1..Len(old[i]) :
                          /\ new[i][j].id = old[i][j].id
                          /\ EntryRead(new[i][j], memRead')
                             = (EntryRead(old[i][j], memRead) \/ old[i][j].id \in ids)
       /\ (tasks[p].op = "mark" /\ tasks[p].hasIds /\ tasks[p].pc = "unreadSet")
          => metaStore'[tasks[p].log][1].unreadCount
             = metaStore[tasks[p].log][1].unreadCount + tasks[p].delta
       /\ (tasks[p].op = "mark" /\ tasks[p].pc = "markSave" /\ tasks'[p].op = "idle")
          => LET b == tasks[p].log
                 chs == heap[tasks[p].bd][1].chunks
             IN /\ \A i \in DOMAIN chs :
                     /\ i \in DOMAIN chunkStore'[b]
                     /\ chunkStore'[b][i] = Serialize(chs[i], memRead)
                /\ UnreadIn(chs, tasks[p].ids, memRead) = {}]_vars

\* C23 (unread count not negative): the unreadCount of every meta, persisted,
\* cached or held by a call in flight, is at least 0.
C23_UnreadNonNegative ==
  /\ \A b \in Logs : metaStore[b] # <<>> => metaStore[b][1].unreadCount >= 0
  /\ \A i \in ObjIds : heap[i] # <<>> => heap[i][1].meta.unreadCount >= 0
  /\ \A p \in TaskIds : tasks[p].meta # <<>> => tasks[p].meta[1].unreadCount >= 0

\* A markMessagesAsRead is about to write a count that was cut off at 0.
C23_Witness ==
  \E p \in TaskIds :
    /\ tasks[p].op = "mark" /\ tasks[p].pc = "unreadSet"
    /\ tasks[p].meta[1].unreadCount = 0
    /\ tasks[p].delta < 0

Occurrences(seq, x) == Cardinality({i \in 1..Len(seq) : seq[i] = x})

\* The messageIds that have an entry in pendingAcks.
PendingIds(s) == {m.messageId : m \in s.pendingAcks}

\* The timeout that fires on the step, when last' names one.
Fired == CHOOSE t \in wsm.timeouts : t.handle = wsm'.last.id

\* C25 (acknowledgment): messageAcknowledged is emitted at most once per
\* message, and a message it was emitted for is no longer in pendingAcks and has
\* no messageTimeout or messageFailed event; a successful ack for a message in
\* pendingAcks removes it and emits messageAcknowledged and nothing else; an ack
\* for an id that is not in pendingAcks (a duplicate, an unknown id) and the
\* acknowledgment timeout of a message that is not in pendingAcks any more
\* change nothing.
C25_Acknowledged ==
  /\ [](\A id \in MessageIds :
          /\ Occurrences(wsm.events, <<"messageAcknowledged", id>>) <= 1
          /\ Occurrences(wsm.events, <<"messageAcknowledged", id>>) = 1
             => /\ id \notin PendingIds(wsm)
                /\ Occurrences(wsm.events, <<"messageTimeout", id>>) = 0
                /\ Occurrences(wsm.events, <<"messageFailed", id>>) = 0
                /\ Occurrences(wsm.wire, id) = 1)
  /\ [][/\ (wsm'.last.kind = "ack" /\ wsm'.last.ok /\ wsm'.last.id \in PendingIds(wsm))
           => wsm' = [wsm EXCEPT !.last = wsm'.last,
                                 !.pendingAcks = {m \in @ : m.messageId # wsm'.last.id},
                                 !.events = Append(@, <<"messageAcknowledged", wsm'.last.id>>)]
        /\ (wsm'.last.kind = "ack" /\ wsm'.last.id \notin PendingIds(wsm))
           => wsm' = [wsm EXCEPT !.last = wsm'.last]
        /\ (wsm'.last.kind = "timeout" /\ Fired.kind = "ack"
            /\ Fired.message.messageId \notin PendingIds(wsm))
           => wsm' = [wsm EXCEPT !.last = wsm'.last, !.timeouts = @ \ {Fired}]]_vars

\* A message was acknowledged and its acknowledgment timeout has fired since.
C25_Witness ==
  \E id \in MessageIds :
    /\ Occurrences(wsm.events, <<"messageAcknowledged", id>>) = 1
    /\ \A t \in wsm.timeouts : t.kind = "ack" => t.message.messageId # id

\* C26 (bounded retry): a message is counted in messagesFailed and reported
\* with messageFailed by handleMessageFailure only after it was sent
\* 1 + maxRetryAttempts times; messagesFailed counts no other message.
C26_RetryThenFail ==
  /\ \A id \in MessageIds :
       Occurrences(wsm.events, <<"messageTimeout", id>>) > 0
         \/ Occurrences(wsm.events, <<"messageFailed", id>>) > 1
       => \/ Occurrences(wsm.wire, id) = 1 + maxRetryAttempts
          \/ /\ Occurrences(wsm.wire, id) <= maxRetryAttempts
             /\ \/ id \in PendingIds(wsm)
                \/ \E t \in wsm.timeouts : t.kind = "retry" /\ t.message.messageId = id
  /\ wsm.messagesFailed
       <= Cardinality({id \in MessageIds : Occurrences(wsm.wire, id) = 1 + maxRetryAttempts})

\* The ids of the queued messages in the order a flush in priority order sends them.
InPriorityOrder(queue) ==
  LET ids(priority) == SelectSeq(queue, LAMBDA q : q.priority = priority)
      all == ids("high") \o ids("medium") \o ids("low")
  IN [i \in 1..Len(all) |-> all[i].message.messageId]

\* C27 (offline queue): while isConnected is false no step but the opening of
\* the connection gives a message to ws.send, and a sendFullSync appends its
\* message to messageQueue; the step on which the connection opens gives the
\* queued messages to ws.send in priority order, arrival order within a
\* priority, and leaves messageQueue empty.
C27_OfflineQueue ==
  [][/\ (~wsm.isConnected /\ wsm'.last.kind # "open") => wsm'.wire = wsm.wire
     /\ (~wsm.isConnected /\ wsm'.last.kind = "sync")
        => /\ Len(wsm'.messageQueue) = Len(wsm.messageQueue) + 1
           /\ SubSeq(wsm'.messageQueue, 1, Len(wsm.messageQueue)) = wsm.messageQueue
           /\ wsm'.messageQueue[Len(wsm'.messageQueue)].message.messageId = wsm'.last.id
     /\ wsm'.last.kind = "open"
        => /\ wsm'.wire = wsm.wire \o InPriorityOrder(wsm.messageQueue)
           /\ wsm'.messageQueue = <<>>]_vars

\* The connection has just opened and two queued messages were sent.
C27_Witness ==
  /\ wsm.last.kind = "open"
  /\ Len(wsm.wire) >= 2
  /\ wsm.messageQueue = <<>>

\* C28 (batch timer): whenever pendingUpdates is not empty, a batch timeout is
\* pending that fires within batchInterval.
C28_BatchTimerArmed ==
  wsm.pendingUpdates # <<>>
  => \E t \in wsm.timeouts : t.kind = "batch" /\ t.due <= wsm.now + batchInterval

\* The times at which update u was given to addToBatch.
BatchedAt(u) == {i \in 1..Len(wsm.batched) : wsm.batched[i].update = u}

\* C29 (debounce): for every sendSkillUpdate call with a debounce key, made at
\* time c: its update is given to addToBatch at most once, and only at time
\* c + debounceDelay; never when a later call with the same key came before
\* c + debounceDelay; and always, once that time is over, when no later call
\* with the same key came up to c + debounceDelay.
C29_Debounce ==
  \A i \in 1..Len(wsm.submitted) :
    LET call == wsm.submitted[i]
        later == {j \in (i + 1)..Len(wsm.submitted) : wsm.submitted[j].key = call.key}
    IN call.key # 0
       => /\ Cardinality(BatchedAt(call.update)) <= 1
          /\ \A n \in BatchedAt(call.update) : wsm.batched[n].time = call.time + debounceDelay
          /\ (\E j \in later : wsm.submitted[j].time < call.time + debounceDelay)
             => BatchedAt(call.update) = {}
          /\ ((\A j \in later : wsm.submitted[j].time > call.time + debounceDelay)
              /\ wsm.now > call.time + debounceDelay)
             => BatchedAt(call.update) # {}

\* Two calls with the same key less than debounceDelay apart, and the update of
\* the second one was given to addToBatch.
C29_Witness ==
  \E i, j \in 1..Len(wsm.submitted) :
    /\ i < j
    /\ wsm.submitted[i].key # 0
    /\ wsm.submitted[j].key = wsm.submitted[i].key
    /\ wsm.submitted[j].time < wsm.submitted[i].time + debounceDelay
    /\ BatchedAt(wsm.submitted[j].update) # {}
    /\ BatchedAt(wsm.submitted[i].update) = {}

\* C30 (reconnect): the close of the connection with fewer than
\* maxReconnectAttempts attempts made sets a reconnect timeout that fires after
\* reconnectInterval, and with maxReconnectAttempts made sets none and emits
\* maxReconnectAttemptsReached; a reconnect timeout that fires while the
\* manager is not connected creates a new WebSocket.
C30_Reconnect ==
  [][/\ (wsm'.last.kind = "close" /\ wsm.reconnectAttempts < maxReconnectAttempts)
        => \E t \in wsm'.timeouts \ wsm.timeouts :
             t.kind = "reconnect" /\ t.due = wsm.now + reconnectInterval
     /\ (wsm'.last.kind = "close" /\ wsm.reconnectAttempts >= maxReconnectAttempts)
        => /\ wsm'.timeouts \subseteq wsm.timeouts
           /\ wsm'.events = Append(wsm.events, <<"maxReconnectAttemptsReached", 0>>)
     /\ (wsm'.last.kind = "timeout" /\ Fired.kind = "reconnect" /\ ~wsm.isConnected)
        => /\ wsm'.sockets = wsm.sockets + 1
           /\ wsm'.socket = "connecting"]_vars

\* The persisted chunks of battle b hold message m.
InStore(store, b, m) ==
  \E i \in DOMAIN store[b] : \E j \in 1..Len(store[b][i]) : store[b][i][j].id = m

\* C31 (subscribe): a callback registered with subscribe(b) is called with a
\* message only when a persisted chunk of b contains the message.
C31_SubscribeAfterPersist ==
  [][\A b \in Logs :
       emitted'[b] # emitted[b]
       => /\ Len(emitted'[b]) = Len(emitted[b]) + 1
          /\ InStore(chunkStore', b, emitted'[b][Len(emitted'[b])])]_vars

\* The chunk records loadBattleFromStorage can decode and parse.
Readable == {i \in DOMAIN codec.store : ~ParseThrows(Decoded(codec.lib, codec.store[i]))}

\* C32 (partial history): loadBattleFromStorage does not fail because of a
\* chunk record it cannot decompress or parse; it returns every chunk it can
\* read.
C32_UnreadableChunkSkipped ==
  codec.loaded # <<>>
  => /\ ~codec.loaded[1].null
     /\ DOMAIN codec.loaded[1].chunks = Readable
     /\ \A i \in Readable : codec.loaded[1].chunks[i] = Decoded(codec.lib, codec.store[i]).chunk

\* C34 (compression): a chunk is stored as compressed text exactly when its
\* compressed flag is set, and that only when its JSON text is longer than
\* compressThreshold and the compressed text was shorter; with no text damaged,
\* loadBattleFromStorage returns for every chunk the messages that were flushed.
C34_CompressedWhenSmaller ==
  /\ \A i \in (DOMAIN codec.store) \ codec.damaged :
       /\ codec.store[i].chunk.compressed <=> codec.store[i].form = "lz"
       /\ codec.store[i].form = "lz"
          => /\ Len(codec.flushed[i]) > compressThreshold
             /\ i \in codec.shrank
       /\ codec.store[i].chunk.messages = codec.flushed[i]
  /\ (codec.loaded # <<>> /\ codec.damaged = {})
     => /\ ~codec.loaded[1].null
        /\ \A i \in DOMAIN codec.store : codec.loaded[1].chunks[i].messages = codec.flushed[i]

\* The messages of the chunks chs, in ascending order of chunk index.
RECURSIVE Concatenated(_, _)
Concatenated(chs, order) ==
  IF order = <<>> THEN <<>> ELSE chs[Head(order)] \o Concatenated(chs, Tail(order))

\* The last n elements of s, all of s when it has fewer.
Last(s, n) == SubSeq(s, IF Len(s) > n THEN Len(s) - n + 1 ELSE 1, Len(s))

\* The object getRecentMessages(b, limit) takes its messages from: the cache
\* entry, else what loadBattleFromStorage returns; none without a persisted meta.
RecentSource(b) ==
  IF CacheHas(cache, b) THEN <<heap[CacheRef(cache, b)][1]>>
  ELSE IF metaStore[b] = <<>> THEN <<>>
  ELSE <<LoadedBattle(b)>>

\* C33 (recent messages): getRecentMessages(b, limit) returns the last
\* min(limit, N) of the N messages of the battle's chunks taken in ascending
\* order of chunk index, in that order, whatever indices are missing.
C33_RecentIsTail ==
  \A b \in Logs :
    RecentSource(b) # <<>>
    => LET bd == RecentSource(b)[1]
           all == Concatenated(bd.chunks, SortedSeq(DOMAIN bd.chunks))
       IN \A limit \in 0..(Len(all) + 1) :
            /\ getMessagesFromBattleData(bd, limit) = Last(all, limit)
            /\ RecentMessages(b, limit) = Ids(Last(all, limit))

\* The battle has lost its chunk 0 to pruning and holds two chunks with three
\* messages or more, so that a limit of 2 cuts inside the older chunk or at
\* the boundary.
C33_Witness ==
  \E b \in Logs :
    /\ CacheHas(cache, b)
    /\ LET bd == heap[CacheRef(cache, b)][1]
       IN /\ 0 \notin DOMAIN bd.chunks
          /\ Cardinality(DOMAIN bd.chunks) = 2
          /\ Len(Concatenated(bd.chunks, SortedSeq(DOMAIN bd.chunks))) >= 3
          /\ Len(RecentMessages(b, 2)) = 2

\* The keys of the cache.
CacheKeys(c) == {c[i].key : i \in 1..Len(c)}

\* C35 (LRU cache): a key leaves the cache only on a step that puts a key
\* into the cache that was not there, with cacheSize entries in the cache
\* before, and the key that leaves is then the least recently used one, the
\* first of the Map; the cache never holds more than cacheSize entries.
C35_EvictionOnlyForNewKey ==
  /\ [](Len(cache) <= cap.cacheSize)
  /\ [][CacheKeys(cache) \ CacheKeys(cache') # {}
        => /\ CacheKeys(cache') \ CacheKeys(cache) # {}
           /\ Len(cache) = cap.cacheSize
           /\ CacheKeys(cache) \ CacheKeys(cache') = {cache[1].key}]_vars

\* Message m is in the battle's write buffer.
InBuffer(queues, b, m) == \E i \in 1..Len(queues[b].msgs) : queues[b].msgs[i] = m

\* The messages of battle b that were pushed on the buffer and are neither in
\* the buffer nor in a persisted chunk.
Lost(b) ==
  {m \in {enqueued[b][i] : i \in 1..Len(enqueued[b])} :
     ~InBuffer(writeQueues, b, m) /\ ~InStore(chunkStore, b, m)}

\* C36: no message is lost to a race with flushing.  Once every call on a
\* battle has returned and no flush timer is pending, with no AsyncStorage
\* rejection and no chunk pruned yet, every message that enqueueMessage pushed
\* on the buffer is still in the buffer or in a persisted chunk.
C36_NoLossToRace ==
  \A b \in Logs :
    (Quiescent(b) /\ flushTimers[b] # "armed" /\ fails = 0
       /\ Cardinality(DOMAIN chunkStore[b]) <= maxChunksPerBattle /\ PersistedLast(b) < maxChunksPerBattle)
    => Lost(b) = {}

\* The places <<chunkIndex, messageIndex>> of the persisted chunks of battle b
\* that hold message m.
PlacesOf(b, m) ==
  {pl \in UNION {{<<i, j>> : j \in 1..Len(chunkStore[b][i])} : i \in DOMAIN chunkStore[b]} :
     chunkStore[b][pl[1]][pl[2]].id = m}

\* The messages in the persisted chunks of battle b.
PersistedIds(b) == {m \in 1..cap.msgs : PlacesOf(b, m) # {}}

\* C37: no message is persisted twice.  In every state every message id is at
\* no more than one place of the persisted chunks of its battle, and once every
\* call on the battle has returned, with no chunk pruned and the persisted meta
\* being the one the last flush saved (its lastChunkIndex is the highest chunk
\* persisted), the persisted totalMessages is the number of distinct messages
\* in the persisted chunks.
C37_PersistedOnce ==
  \A b \in Logs :
    /\ \A m \in 1..cap.msgs : Cardinality(PlacesOf(b, m)) <= 1
    /\ (Quiescent(b) /\ metaStore[b] # <<>> /\ PersistedLast(b) = HighestPersisted(b)
          /\ Cardinality(DOMAIN chunkStore[b]) <= maxChunksPerBattle /\ PersistedLast(b) < maxChunksPerBattle)
       => metaStore[b][1].totalMessages = Cardinality(PersistedIds(b))

\* The tokens of a query.
QueryTokens(query) == {Tokenize(query)[i] : i \in 1..Len(Tokenize(query))}

\* C38: searchMessages never returns a message that contains none of the
\* query's tokens.  With no call on a battle in flight, every result of
\* searchMessages(query, {battleId}) is a message whose text contains a token
\* of the query; so after clearBattleLog and new messages under the same
\* identifier, a token of the cleared messages only finds nothing.
C38_ResultsContainToken ==
  \A b \in Logs : \A query \in Queries :
    Quiescent(b)
    => LET results == searchMessages(query, b, NoLimit)
       IN \A k \in 1..Len(results) : TokensOf(results[k].message) \cap QueryTokens(query) # {}

\* Task p is a flushBattle about to persist while its battle has no write
\* buffer: it captured the buffer and waited for the lock, clearBattleLog
\* deleted the buffer, and no enqueueMessage has pushed a message since.
ResumedAfterClear(p) ==
  /\ tasks[p].op \in {"flush", "enq"}
  /\ tasks[p].pc \in {"saveChunk", "saveMeta"}
  /\ ~writeQueues[tasks[p].log].has

\* C39: a flushBattle that waited for the lock while clearBattleLog ran does
\* not bring the log back.  Its steps after the clear, with no enqueueMessage
\* since, write no chunk record and no meta record of the battle.
C39_ClearedStaysCleared ==
  [][\A p \in TaskIds :
       LET b == tasks[p].log
       IN (ResumedAfterClear(p) /\ tasks'[p].pc # tasks[p].pc)
          => chunkStore'[b] = chunkStore[b] /\ metaStore'[b] = metaStore[b]]_vars

\* C40: the unread-count update changes only unreadCount (and lastUpdated) of
\* the persisted meta.  The step in which updateUnreadCountInMemory's setItem
\* completes leaves lastChunkIndex and totalMessages of the persisted meta as
\* they were, so it never puts back values older than those a flush saved.
C40_UnreadUpdateFrame ==
  [][\A p \in TaskIds :
       LET b == tasks[p].log
       IN (tasks[p].pc = "unreadSet" /\ tasks'[p].pc # "unreadSet" /\ metaStore[b] # <<>>)
          => /\ metaStore'[b] # <<>>
             /\ metaStore'[b][1].lastChunkIndex = metaStore[b][1].lastChunkIndex
             /\ metaStore'[b][1].totalMessages = metaStore[b][1].totalMessages]_vars


====
